---- MODULE Spec2Model ----
(***************************************************************************)
(* Model of the nyxstack/dotenv parser: the Tokenizer (tokenizer.go), the  *)
(* line parser and document loop (parser.go), variable expansion           *)
(* (expandVariables) and the .env writer (dotenv.go: WriteEnvFile,         *)
(* needsQuoting, quoteValue).                                              *)
(*                                                                         *)
(* A text is a sequence of bytes; every byte is a one-character string.    *)
(* Offsets are 0-based as in the Go code: byte i of c is c[i + 1].         *)
(***************************************************************************)
EXTENDS Integers, Sequences, FiniteSets, TLC

VARIABLES content, pos, line, col, env, result, pc, ret, input, file,
          osenv, out, target, source, pending

vars == <<content, pos, line, col, env, result, pc, ret, input, file,
          osenv, out, target, source, pending>>

-----------------------------------------------------------------------------
(* Bytes and character classes *)

LF == "\n"
CR == "\r"
TAB == "\t"
SP == " "
DQ == "\""
SQ == "'"
BSL == "\\"
HASH == "#"
DOLLAR == "$"
EQ == "="
LBRACE == "{"
RBRACE == "}"

\* The byte 0 that peek and advance return at end of input.
NUL == "NUL"

\* form feed and vertical tab
FF == "\f"
VT == "VT"

\* the white space of Unicode outside ASCII, each one element of a text:
\* next line U+0085, no-break space U+00A0, and the spaces from U+1680 on
NEL == "U+0085"
NBSP == "U+00A0"
WideSpaces ==
  {"U+1680", "U+2000", "U+2001", "U+2002", "U+2003", "U+2004", "U+2005",
   "U+2006", "U+2007", "U+2008", "U+2009", "U+200A", "U+2028", "U+2029",
   "U+202F", "U+205F", "U+3000"}

\* unicode.IsSpace(r): the characters strings.TrimSpace removes
IsSpace(r) == r \in {SP, TAB, LF, CR, FF, VT, NEL, NBSP} \cup WideSpaces

Upper ==
  {"A", "B", "C", "D", "E", "F", "G", "H", "I", "J", "K", "L", "M",
   "N", "O", "P", "Q", "R", "S", "T", "U", "V", "W", "X", "Y", "Z"}

Lower ==
  {"a", "b", "c", "d", "e", "f", "g", "h", "i", "j", "k", "l", "m",
   "n", "o", "p", "q", "r", "s", "t", "u", "v", "w", "x", "y", "z"}

Digit == {"0", "1", "2", "3", "4", "5", "6", "7", "8", "9"}

isValidKeyChar(ch) == ch \in Upper \/ ch \in Lower \/ ch \in Digit \/ ch = "_"

isValidKeyStart(ch) == ch \in Upper \/ ch \in Lower \/ ch = "_"

-----------------------------------------------------------------------------
(* Byte-sequence helpers *)

\* c[from:to] of Go: bytes from offset from up to, not including, offset to.
Slice(c, from, to) == SubSeq(c, from + 1, to)

\* strings.HasPrefix(c[from:], p)
HasPrefixAt(c, from, p) ==
  /\ from + Len(p) <= Len(c)
  /\ Slice(c, from, from + Len(p)) = p

RECURSIVE TrimRight(_)
\* strings.TrimRight(s, " \t")
TrimRight(s) ==
  IF s # <<>> /\ s[Len(s)] \in {SP, TAB}
  THEN TrimRight(SubSeq(s, 1, Len(s) - 1))
  ELSE s

\* strings.Contains(s, "$") and the like, for a single byte
Contains(s, ch) == \E i \in 1..Len(s) : s[i] = ch

ExportPrefix == <<"e", "x", "p", "o", "r", "t", " ">>

-----------------------------------------------------------------------------
(* Tokenizer: a scanner state is a record [pos, line, col] over a text c *)

NewTokenizer == [pos |-> 0, line |-> 1, col |-> 1]

peek(c, t) == IF t.pos >= Len(c) THEN NUL ELSE c[t.pos + 1]

\* advance that goes on counting the column over a line feed
advance_ColumnRunsOn(c, t) ==
  IF t.pos >= Len(c) THEN t
  ELSE IF c[t.pos + 1] = LF
       THEN [pos |-> t.pos + 1, line |-> t.line + 1, col |-> t.col + 1]
       ELSE [pos |-> t.pos + 1, line |-> t.line, col |-> t.col + 1]

\* the scanner state after advance(); the byte it returns is peek(c, t)
advance(c, t) ==
  IF t.pos >= Len(c) THEN t
  ELSE IF c[t.pos + 1] = LF
       THEN [pos |-> t.pos + 1, line |-> t.line + 1, col |-> 1]
       ELSE [pos |-> t.pos + 1, line |-> t.line, col |-> t.col + 1]

RECURSIVE skipWhitespace(_, _)
skipWhitespace(c, t) ==
  IF t.pos < Len(c) /\ (peek(c, t) = SP \/ peek(c, t) = TAB)
  THEN skipWhitespace(c, advance(c, t))
  ELSE t

RECURSIVE skipToLineFeed(_, _)
\* the first loop of skipToNextLine
skipToLineFeed(c, t) ==
  IF t.pos < Len(c) /\ peek(c, t) # LF
  THEN skipToLineFeed(c, advance(c, t))
  ELSE t

\* skipToNextLine stepping over the line feed without counting the line
skipToNextLine_NoLineCount(c, t) ==
  LET u == skipToLineFeed(c, t)
  IN  IF u.pos < Len(c) THEN [pos |-> u.pos + 1, line |-> u.line, col |-> 1] ELSE u

skipToNextLine(c, t) ==
  LET u == skipToLineFeed(c, t)
  IN  IF u.pos < Len(c) THEN advance(c, u) ELSE u

\* Errors: kind "none" is the nil error; line is the %d of the message.
NoError == [kind |-> "none", line |-> 0]
InvalidKey(n) == [kind |-> "InvalidKey", line |-> n]
MissingVariableName(n) == [kind |-> "MissingVariableName", line |-> n]
MissingAssignment(n) == [kind |-> "MissingAssignment", line |-> n]
UnterminatedString(n) == [kind |-> "UnterminatedString", line |-> n]

UnexpectedEOFAfterEscape(n) == [kind |-> "UnexpectedEOFAfterEscape", line |-> n]

RECURSIVE skipKeyChars(_, _)
\* the loop of parseKey
skipKeyChars(c, t) ==
  IF t.pos < Len(c) /\ isValidKeyChar(peek(c, t))
  THEN skipKeyChars(c, advance(c, t))
  ELSE t

\* parseKey without the check of the first byte
parseKey_NoStartCheck(c, t) ==
  LET u == skipKeyChars(c, t)
  IN  [key |-> Slice(c, t.pos, u.pos), err |-> NoError, t |-> u]

\* parseKey: the key, the error and the scanner state it leaves
parseKey(c, t) ==
  IF ~isValidKeyStart(peek(c, t))
  THEN [key |-> <<>>, err |-> InvalidKey(t.line), t |-> t]
  ELSE LET u == skipKeyChars(c, t)
       IN  [key |-> Slice(c, t.pos, u.pos), err |-> NoError, t |-> u]

RECURSIVE scanUnquoted(_, _, _)
\* the loop of parseUnquotedValue that a carriage return does not end
scanUnquoted_ThroughCR(c, t, acc) ==
  IF t.pos >= Len(c) THEN [acc |-> acc, hasComment |-> FALSE, t |-> t]
  ELSE LET ch == peek(c, t)
       IN  IF ch = LF
           THEN [acc |-> acc, hasComment |-> FALSE, t |-> t]
           ELSE IF ch = HASH
           THEN [acc |-> acc, hasComment |-> TRUE, t |-> t]
           ELSE scanUnquoted(c, advance(c, t), Append(acc, ch))

\* the loop of parseUnquotedValue; acc is the strings.Builder
scanUnquoted(c, t, acc) ==
  IF t.pos >= Len(c) THEN [acc |-> acc, hasComment |-> FALSE, t |-> t]
  ELSE LET ch == peek(c, t)
       IN  IF ch = LF \/ ch = CR
           THEN [acc |-> acc, hasComment |-> FALSE, t |-> t]
           ELSE IF ch = HASH
           THEN [acc |-> acc, hasComment |-> TRUE, t |-> t]
           ELSE scanUnquoted(c, advance(c, t), Append(acc, ch))

parseUnquotedValue(c, t) ==
  LET s == scanUnquoted(c, t, <<>>)
  IN  [value |-> TrimRight(s.acc), hasComment |-> s.hasComment, t |-> s.t]

\* Unescape that drops the backslash of an unknown escape
Unescape_DropBackslash(escaped) ==
  CASE escaped = "n" -> <<LF>>
    [] escaped = "t" -> <<TAB>>
    [] escaped = "r" -> <<CR>>
    [] OTHER -> <<escaped>>

\* the bytes the escape switch of parseQuotedValue writes for \escaped
Unescape(escaped) ==
  CASE escaped = "n" -> <<LF>>
    [] escaped = "t" -> <<TAB>>
    [] escaped = "r" -> <<CR>>
    [] escaped = BSL -> <<BSL>>
    [] escaped = DQ -> <<DQ>>
    [] escaped = SQ -> <<SQ>>
    [] OTHER -> <<BSL, escaped>>

RECURSIVE scanQuoted(_, _, _, _)
\* the loop of parseQuotedValue, entered after the opening quote is consumed
scanQuoted(c, t, quote, acc) ==
  IF t.pos >= Len(c)
  THEN [value |-> <<>>, err |-> UnterminatedString(t.line), t |-> t]
  ELSE LET ch == peek(c, t)
       IN  IF ch = quote
           THEN [value |-> acc, err |-> NoError, t |-> advance(c, t)]
           ELSE IF ch = BSL /\ quote = DQ
           THEN LET u == advance(c, t)
                IN  IF u.pos >= Len(c)
                    THEN [value |-> <<>>, err |-> UnexpectedEOFAfterEscape(u.line), t |-> u]
                    ELSE scanQuoted(c, advance(c, u), quote, acc \o Unescape(peek(c, u)))
           ELSE scanQuoted(c, advance(c, t), quote, Append(acc, ch))

parseQuotedValue(c, t, quote) == scanQuoted(c, advance(c, t), quote, <<>>)

-----------------------------------------------------------------------------
(* Variable expansion *)

RECURSIVE identEnd(_, _)
\* offset just past the maximal run [A-Za-z0-9_]* that starts at offset i
identEnd(s, i) ==
  IF i < Len(s) /\ isValidKeyChar(s[i + 1]) THEN identEnd(s, i + 1) ELSE i

\* a match of \$\{([A-Za-z_][A-Za-z0-9_]*)\} at offset i: its end offset, or -1
bracedMatchEnd(s, i) ==
  IF /\ i + 2 < Len(s)
     /\ s[i + 1] = DOLLAR
     /\ s[i + 2] = LBRACE
     /\ isValidKeyStart(s[i + 3])
  THEN LET e == identEnd(s, i + 2)
       IN  IF e < Len(s) /\ s[e + 1] = RBRACE THEN e + 1 ELSE -1
  ELSE -1

\* a match of \$([A-Za-z_][A-Za-z0-9_]*) at offset i: its end offset, or -1
simpleMatchEnd(s, i) ==
  IF /\ i + 1 < Len(s)
     /\ s[i + 1] = DOLLAR
     /\ isValidKeyStart(s[i + 2])
  THEN identEnd(s, i + 1)
  ELSE -1

RECURSIVE replaceBraced(_, _, _)
\* varPattern.ReplaceAllStringFunc from offset i on
replaceBraced(s, i, m) ==
  IF i >= Len(s) THEN <<>>
  ELSE LET e == bracedMatchEnd(s, i)
       IN  IF e = -1 THEN <<s[i + 1]>> \o replaceBraced(s, i + 1, m)
           ELSE LET varName == Slice(s, i + 2, e - 1)
                IN  (IF varName \in DOMAIN m THEN m[varName] ELSE Slice(s, i, e))
                      \o replaceBraced(s, e, m)

RECURSIVE replaceSimple(_, _, _)
\* simplePattern.ReplaceAllStringFunc from offset i on
replaceSimple(s, i, m) ==
  IF i >= Len(s) THEN <<>>
  ELSE LET e == simpleMatchEnd(s, i)
       IN  IF e = -1 THEN <<s[i + 1]>> \o replaceSimple(s, i + 1, m)
           ELSE LET varName == Slice(s, i + 1, e)
                IN  (IF varName \in DOMAIN m THEN m[varName] ELSE Slice(s, i, e))
                      \o replaceSimple(s, e, m)

\* expandVariables with the bare form handled before the braced form
expandVariables_BareFirst(value, m) == replaceBraced(replaceSimple(value, 0, m), 0, m)

\* expandVariables: the braced pass, then the bare pass on its result
expandVariables(value, m) == replaceSimple(replaceBraced(value, 0, m), 0, m)

-----------------------------------------------------------------------------
(* Line parser *)

LineResult(k, v, a, e) == [Key |-> k, Value |-> v, AllowExpansion |-> a, Error |-> e]

ErrorResult(e) == LineResult(<<>>, <<>>, FALSE, e)

\* skipTrailing that leaves a comment after the value unread
skipTrailing_NoComment(c, t) == skipWhitespace(c, t)

\* the scanner state after the final "skip whitespace and comments" of ParseLine
skipTrailing(c, t) ==
  LET u == skipWhitespace(c, t)
  IN  IF u.pos < Len(c) /\ peek(c, u) = HASH THEN skipToNextLine(c, u) ELSE u

\* parseValue with expansion allowed for single-quoted values too
parseValue_SingleQuoteExpands(c, t, key) ==
  LET ch == peek(c, t)
  IN  IF ch = DQ \/ ch = SQ
      THEN LET q == parseQuotedValue(c, t, ch)
           IN  IF q.err.kind # "none"
               THEN [res |-> ErrorResult(q.err), t |-> q.t]
               ELSE [res |-> LineResult(key, q.value, TRUE, NoError),
                     t |-> skipTrailing(c, q.t)]
      ELSE LET v == parseUnquotedValue(c, t)
               u == IF v.hasComment THEN skipToNextLine(c, v.t) ELSE v.t
           IN  [res |-> LineResult(key, v.value, TRUE, NoError),
                t |-> skipTrailing(c, u)]

\* ParseLine from the value on: t is the scanner after "=" and whitespace
parseValue(c, t, key) ==
  LET ch == peek(c, t)
  IN  IF ch = DQ
      THEN LET q == parseQuotedValue(c, t, DQ)
           IN  IF q.err.kind # "none"
               THEN [res |-> ErrorResult(q.err), t |-> q.t]
               ELSE [res |-> LineResult(key, q.value, TRUE, NoError),
                     t |-> skipTrailing(c, q.t)]
      ELSE IF ch = SQ
      THEN LET q == parseQuotedValue(c, t, SQ)
           IN  IF q.err.kind # "none"
               THEN [res |-> ErrorResult(q.err), t |-> q.t]
               ELSE [res |-> LineResult(key, q.value, FALSE, NoError),
                     t |-> skipTrailing(c, q.t)]
      ELSE LET v == parseUnquotedValue(c, t)
               u == IF v.hasComment THEN skipToNextLine(c, v.t) ELSE v.t
           IN  [res |-> LineResult(key, v.value, TRUE, NoError),
                t |-> skipTrailing(c, u)]

\* skipExport without the skipWhitespace that follows the prefix
skipExport_KeepsWhitespace(c, t) ==
  IF HasPrefixAt(c, t.pos, ExportPrefix)
  THEN [pos |-> t.pos + 7, line |-> t.line, col |-> t.col + 7]
  ELSE t

\* the scanner state after the optional "export " prefix
skipExport(c, t) ==
  IF HasPrefixAt(c, t.pos, ExportPrefix)
  THEN skipWhitespace(c, [pos |-> t.pos + 7, line |-> t.line, col |-> t.col + 7])
  ELSE t

\* isBlankOrComment that does not know the comment sign
isBlankOrComment_NoHash(c, t) ==
  t.pos >= Len(c) \/ peek(c, t) = LF \/ peek(c, t) = CR

\* the check of ParseLine for an empty line or a comment, leading
\* whitespace skipped
isBlankOrComment(c, t) ==
  t.pos >= Len(c) \/ peek(c, t) = LF \/ peek(c, t) = CR \/ peek(c, t) = HASH

\* ParseLine that leaves the cursor on a blank line or comment
ParseLine_BlankStays(c, t) ==
  LET t1 == skipWhitespace(c, t)
  IN  IF isBlankOrComment(c, t1)
      THEN [res |-> LineResult(<<>>, <<>>, FALSE, NoError), t |-> t1]
      ELSE LET t2 == skipExport(c, t1)
               k == parseKey(c, t2)
           IN  IF k.err.kind # "none"
               THEN [res |-> ErrorResult(k.err), t |-> k.t]
               ELSE IF k.key = <<>>
               THEN [res |-> ErrorResult(MissingVariableName(k.t.line)), t |-> k.t]
               ELSE LET t3 == skipWhitespace(c, k.t)
                    IN  IF peek(c, t3) # EQ
                        THEN [res |-> ErrorResult(MissingAssignment(t3.line)), t |-> t3]
                        ELSE parseValue(c, skipWhitespace(c, advance(c, t3)), k.key)

\* ParseLine: the LineResult and the scanner state it leaves
ParseLine(c, t) ==
  LET t1 == skipWhitespace(c, t)
  IN  IF isBlankOrComment(c, t1)
      THEN [res |-> LineResult(<<>>, <<>>, FALSE, NoError), t |-> skipToNextLine(c, t1)]
      ELSE LET t2 == skipExport(c, t1)
               k == parseKey(c, t2)
           IN  IF k.err.kind # "none"
               THEN [res |-> ErrorResult(k.err), t |-> k.t]
               ELSE IF k.key = <<>>
               THEN [res |-> ErrorResult(MissingVariableName(k.t.line)), t |-> k.t]
               ELSE LET t3 == skipWhitespace(c, k.t)
                    IN  IF peek(c, t3) # EQ
                        THEN [res |-> ErrorResult(MissingAssignment(t3.line)), t |-> t3]
                        ELSE parseValue(c, skipWhitespace(c, advance(c, t3)), k.key)

-----------------------------------------------------------------------------
(* Document loop: Parser.Parse, one action per loop iteration *)

EmptyEnv == [k \in {} |-> <<>>]

\* Put that leaves out a key whose value is empty
Put_SkipEmpty(m, k, v) ==
  IF v = <<>> THEN m ELSE [x \in DOMAIN m \cup {k} |-> IF x = k THEN v ELSE m[x]]

\* env[key] = value on a Go map
Put(m, k, v) == [x \in DOMAIN m \cup {k} |-> IF x = k THEN v ELSE m[x]]

\* StoredValue with the entry inserted before its value is expanded, so that
\* the value sees its own key
StoredValue_OwnKeyVisible(r, m) ==
  IF r.AllowExpansion /\ Contains(r.Value, DOLLAR)
  THEN expandVariables(r.Value, Put(m, r.Key, r.Value))
  ELSE r.Value

\* the value Parse stores for a LineResult r, given the mapping built so far
StoredValue(r, m) ==
  IF r.AllowExpansion /\ Contains(r.Value, DOLLAR)
  THEN expandVariables(r.Value, m)
  ELSE r.Value

\* Store that keeps the first assignment of a key
Store_KeepFirst(m, r) ==
  IF r.Key = <<>> \/ r.Key \in DOMAIN m THEN m ELSE Put(m, r.Key, StoredValue(r, m))

\* what an iteration of Parse does to env for an error-free LineResult r
Store(m, r) ==
  IF r.Key = <<>> THEN m ELSE Put(m, r.Key, StoredValue(r, m))

NoResult == LineResult(<<>>, <<>>, FALSE, NoError)

\* what Parse has returned: nothing yet, (nil, err) or (env, nil)
NotReturned == [returned |-> FALSE, nil |-> TRUE, env |-> EmptyEnv, err |-> NoError]

\* an error return that hands out the entries parsed so far
ErrorReturn_Partial(m, e) == [returned |-> TRUE, nil |-> FALSE, env |-> m, err |-> e]

\* return nil, result.Error (m is the mapping built so far, which is dropped)
ErrorReturn(m, e) == [returned |-> TRUE, nil |-> TRUE, env |-> EmptyEnv, err |-> e]

\* no typed accessor and no Unmarshal has been called
NoCall == [fn |-> "none"]

\* no struct is being marshalled and no mapping is being applied
NoMarshal ==
  /\ source = <<>>
  /\ pending = {}

\* the process environment is empty and the typed API has not been used
NoProcess ==
  /\ osenv = EmptyEnv
  /\ out = NoCall
  /\ target = <<>>
  /\ NoMarshal

\* NewParser(text): the state in which Parse starts
NewParser(text) ==
  /\ content = text
  /\ pos = NewTokenizer.pos
  /\ line = NewTokenizer.line
  /\ col = NewTokenizer.col
  /\ env = EmptyEnv
  /\ result = NoResult
  /\ pc = "parse"
  /\ ret = NotReturned

\* one iteration of the for loop of Parse
ParseIter ==
  /\ pc = "parse"
  /\ pos < Len(content)
  /\ LET p == ParseLine(content, [pos |-> pos, line |-> line, col |-> col])
         r == p.res
     IN  /\ pos' = p.t.pos
         /\ line' = p.t.line
         /\ col' = p.t.col
         /\ result' = r
         /\ IF r.Error.kind # "none"
            THEN /\ pc' = "error"
                 /\ ret' = ErrorReturn(env, r.Error)
                 /\ env' = env
            ELSE /\ pc' = pc
                 /\ ret' = ret
                 /\ env' = Store(env, r)
  /\ UNCHANGED <<content, input, file, osenv, source, pending, out, target>>

\* the loop condition fails: return env, nil
ParseReturn ==
  /\ pc = "parse"
  /\ pos >= Len(content)
  /\ pc' = "done"
  /\ ret' = [returned |-> TRUE, nil |-> FALSE, env |-> env, err |-> NoError]
  /\ UNCHANGED <<content, pos, line, col, env, result, input, file, osenv, source, pending, out, target>>

-----------------------------------------------------------------------------
(* Documents: lines joined by line feeds *)

RECURSIVE Join(_)
\* the lines of ls with a line feed between consecutive lines
Join(ls) ==
  IF Len(ls) = 0 THEN <<>>
  ELSE IF Len(ls) = 1 THEN ls[1]
  ELSE ls[1] \o <<LF>> \o Join(Tail(ls))

DocsOf(lines, n) == { Join(ls) : ls \in UNION { [1..k -> lines] : k \in 1..n } }

\* a value body written unquoted, single-quoted or double-quoted
Quoted(q, body) == IF q = "" THEN body ELSE <<q>> \o body \o <<q>>

Assign(k, q, body) == <<k, EQ>> \o Quoted(q, body)

-----------------------------------------------------------------------------
(* Spec: Parse over documents whose values hold variable references *)

MaxLines == 2

ExpandBodies ==
  { <<"x">>,
    <<"$", "A">>,
    <<"$", "{", "A", "}">>,
    <<"$", "B", " ", "y">>,
    <<"x", "$", "A">> }

ExpandLines ==
  { Assign(k, q, b) : k \in {"A", "B"}, q \in {"", SQ, DQ}, b \in ExpandBodies }

Init ==
  /\ \E d \in DocsOf(ExpandLines, MaxLines) : NewParser(d)
  /\ input = EmptyEnv
  /\ file = <<>>
  /\ NoProcess

Next == ParseIter \/ ParseReturn

Spec == Init /\ [][Next]_vars

-----------------------------------------------------------------------------
(* SpecError: Parse over documents with malformed lines *)

MaxErrorLines == 3

ErrorLines ==
  { <<>>,
    <<"#", "c">>,
    <<"A", "=", "x">>,
    <<"e", "x", "p", "o", "r", "t", " ", "B", "=", "x">>,
    <<"1", "=", "x">>,
    <<"=", "x">>,
    <<"e", "x", "p", "o", "r", "t", " ", "1">>,
    <<"A">>,
    <<" ", "A", " ", "x">>,
    <<"x", DQ>>,
    <<"A", "=", DQ, "x">>,
    <<"A", "=", SQ, "x">>,
    <<"A", "=", DQ, "x", BSL>>,
    <<"A", "=", DQ, "x", BSL, BSL>> }

InitError ==
  /\ \E d \in DocsOf(ErrorLines, MaxErrorLines) : NewParser(d)
  /\ input = EmptyEnv
  /\ file = <<>>
  /\ NoProcess

SpecError == InitError /\ [][Next]_vars

-----------------------------------------------------------------------------
(* SpecValue: Parse over documents with unquoted values, quotes and comments *)

MaxValueLines == 2

ValueLines ==
  { <<"A", "=", "x", " ", "y">>,
    <<"A", "=", " ", "x", " ", "y", " ", TAB>>,
    <<"A", "=", "x", "#", "c">>,
    <<"A", "=", " ", "x", " ", "y", " ", TAB, "#", "c">>,
    <<"A", "=">>,
    <<"A", "=", " ", "#", "c">>,
    <<"A", "=", "x", CR>>,
    <<"A", "=", "x", DQ, "y">>,
    <<"B", "=", "y">>,
    <<"B", "=", "$", "A">>,
    <<"B", "=", "$", "{", "A", "}", " ", "z", " ", "#", "c">>,
    <<"A", "=", DQ, "x", "#", "y", DQ>>,
    <<"A", "=", SQ, "x", "#", "y", SQ>>,
    <<"A", "=", DQ, "x", DQ, " ", "#", "c">>,
    <<"A", "=", SQ, "x", SQ, "#", "c">>,
    <<"A", "=", DQ, "#", DQ, "#">>,
    <<"A", "=", SQ, "x", "#", "y", SQ, " ", TAB, "#", "B", "=", "y">>,
    <<"B", "=", DQ, "$", "A", "#", DQ, " ", "#", DQ>> }

InitValue ==
  /\ \E d \in DocsOf(ValueLines, MaxValueLines) : NewParser(d)
  /\ input = EmptyEnv
  /\ file = <<>>
  /\ NoProcess

SpecValue == InitValue /\ [][Next]_vars

-----------------------------------------------------------------------------
(* Writer: WriteEnvFile, needsQuoting, quoteValue *)

\* the bytes with codes 32..95, in the order of their codes
AsciiLow ==
  << " ", "!", "\"", "#", "$", "%", "&", "'", "(", ")", "*", "+",
     ",", "-", ".", "/", "0", "1", "2", "3", "4", "5", "6", "7",
     "8", "9", ":", ";", "<", "=", ">", "?", "@", "A", "B", "C",
     "D", "E", "F", "G", "H", "I", "J", "K", "L", "M", "N", "O",
     "P", "Q", "R", "S", "T", "U", "V", "W", "X", "Y", "Z", "[",
     "\\", "]", "^", "_" >>

\* the bytes with codes 97..126, in the order of their codes
AsciiHigh ==
  << "a", "b", "c", "d", "e", "f", "g", "h", "i", "j", "k", "l",
     "m", "n", "o", "p", "q", "r", "s", "t", "u", "v", "w", "x",
     "y", "z", "{", "|", "}", "~" >>

\* the code of a byte, as Go's string comparison orders them
CodeOf(ch) ==
  CASE ch = TAB -> 9
    [] ch = LF -> 10
    [] ch = CR -> 13
    [] \E i \in 1..Len(AsciiLow) : AsciiLow[i] = ch ->
         31 + (CHOOSE i \in 1..Len(AsciiLow) : AsciiLow[i] = ch)
    [] \E i \in 1..Len(AsciiHigh) : AsciiHigh[i] = ch ->
         96 + (CHOOSE i \in 1..Len(AsciiHigh) : AsciiHigh[i] = ch)

RECURSIVE GreaterFrom(_, _, _)
\* a > b for Go strings that agree on their first i - 1 bytes
GreaterFrom(a, b, i) ==
  IF i > Len(a) THEN FALSE
  ELSE IF i > Len(b) THEN TRUE
  ELSE IF a[i] = b[i] THEN GreaterFrom(a, b, i + 1)
  ELSE CodeOf(a[i]) > CodeOf(b[i])

Greater(a, b) == GreaterFrom(a, b, 1)

Swap(ks, i, j) == [ks EXCEPT ![i] = ks[j], ![j] = ks[i]]

RECURSIVE sortInner(_, _, _)
\* the loop over j of the exchange sort (indices are 1-based here)
sortInner(ks, i, j) ==
  IF j > Len(ks) THEN ks
  ELSE sortInner(IF Greater(ks[i], ks[j]) THEN Swap(ks, i, j) ELSE ks, i, j + 1)

RECURSIVE sortOuter(_, _)
\* the loop over i cut short after its first pass
sortOuter_OnePass(ks, i) ==
  IF i > 1 THEN ks ELSE sortOuter(sortInner(ks, i, i + 1), i + 1)

\* the loop over i of the exchange sort
sortOuter(ks, i) ==
  IF i > Len(ks) THEN ks ELSE sortOuter(sortInner(ks, i, i + 1), i + 1)

sortKeys(ks) == sortOuter(ks, 1)

needsQuoting(value) ==
  /\ value # <<>>
  /\ \E i \in 1..Len(value) :
       value[i] \in {SP, TAB, LF, CR, DQ, SQ, BSL, HASH, DOLLAR}

RECURSIVE ReplaceAll(_, _, _)
\* strings.ReplaceAll(s, old, new) for a one-byte old
ReplaceAll(s, old, new) ==
  IF s = <<>> THEN <<>>
  ELSE (IF Head(s) = old THEN new ELSE <<Head(s)>>) \o ReplaceAll(Tail(s), old, new)

quoteValue(value) ==
  LET e1 == ReplaceAll(value, BSL, <<BSL, BSL>>)
      e2 == ReplaceAll(e1, DQ, <<BSL, DQ>>)
      e3 == ReplaceAll(e2, LF, <<BSL, "n">>)
      e4 == ReplaceAll(e3, TAB, <<BSL, "t">>)
      e5 == ReplaceAll(e4, CR, <<BSL, "r">>)
  IN  <<DQ>> \o e5 \o <<DQ>>

\* the line WriteEnvFile emits for key
envLine(m, key) ==
  key \o <<EQ>> \o (IF needsQuoting(m[key]) THEN quoteValue(m[key]) ELSE m[key])

\* the text WriteEnvFile writes when the map m is iterated in the order ks
fileContent(m, ks) ==
  LET sorted == sortKeys(ks)
      joined == Join([i \in 1..Len(sorted) |-> envLine(m, sorted[i])])
  IN  IF joined # <<>> THEN joined \o <<LF>> ELSE joined

\* the orders in which a Go range loop can visit the keys of m
IterationOrders(m) ==
  { ks \in [1..Cardinality(DOMAIN m) -> DOMAIN m] :
      \A i, j \in 1..Cardinality(DOMAIN m) : i # j => ks[i] # ks[j] }

\* WriteEnvFile(filename, input)
WriteEnvFile ==
  /\ pc = "write"
  /\ \E ks \in IterationOrders(input) : file' = fileContent(input, ks)
  /\ pc' = "written"
  /\ UNCHANGED <<content, pos, line, col, env, result, ret, input, osenv, source, pending, out, target>>

\* Load(filename): read the file and start a parser on its text
Load ==
  /\ pc = "written"
  /\ content' = file
  /\ pos' = NewTokenizer.pos
  /\ line' = NewTokenizer.line
  /\ col' = NewTokenizer.col
  /\ env' = EmptyEnv
  /\ result' = NoResult
  /\ ret' = NotReturned
  /\ pc' = "parse"
  /\ UNCHANGED <<input, file, osenv, source, pending, out, target>>

-----------------------------------------------------------------------------
(* SpecWrite: a mapping is written with WriteEnvFile and loaded back *)

MaxMapKeys == 2

WriteKeys == { <<"A">>, <<"B">>, <<"A", "B">> }

\* values without control characters
WriteValues ==
  { <<>>,
    <<"x">>,
    <<"a", " ", "b">>,
    <<" ", "#">>,
    <<DQ, SQ>>,
    <<BSL, "n">>,
    <<BSL>>,
    <<"$", "A">> }

WriteMaps ==
  UNION { [ks -> WriteValues] :
            ks \in { S \in SUBSET WriteKeys : Cardinality(S) <= MaxMapKeys } }

InitWrite ==
  /\ input \in WriteMaps
  /\ file = <<>>
  /\ NoProcess
  /\ content = <<>>
  /\ pos = NewTokenizer.pos
  /\ line = NewTokenizer.line
  /\ col = NewTokenizer.col
  /\ env = EmptyEnv
  /\ result = NoResult
  /\ ret = NotReturned
  /\ pc = "write"

NextWrite == WriteEnvFile \/ Load \/ ParseIter \/ ParseReturn

SpecWrite == InitWrite /\ [][NextWrite]_vars

\* C4: round trip: a mapping with valid keys and values without control
\* characters, written by WriteEnvFile and parsed back, is reproduced exactly.
C4_RoundTrip ==
  pc \in {"done", "error"} =>
    /\ pc = "done"
    /\ ~ret.nil
    /\ ret.env = input

-----------------------------------------------------------------------------
(* Reference notions the properties are stated with, read off the text     *)
(* itself and not off the scanner                                          *)

\* 1-based number of the physical line that holds offset off of c
LineOf(c, off) == 1 + Cardinality({ i \in 1..off : c[i] = LF })

\* least offset >= p whose byte is in S, or Len(c) when there is none
NextOf(c, p, S) ==
  CHOOSE i \in p..Len(c) :
    /\ i = Len(c) \/ c[i + 1] \in S
    /\ \A j \in p..(i - 1) : c[j + 1] \notin S

\* least offset >= p whose byte is not a space or tab, or Len(c)
FirstNonWs(c, p) ==
  CHOOSE i \in p..Len(c) :
    /\ i = Len(c) \/ c[i + 1] \notin {SP, TAB}
    /\ \A j \in p..(i - 1) : c[j + 1] \in {SP, TAB}

\* byte at offset i, NUL past the end
ByteAt(c, i) == IF i < Len(c) THEN c[i + 1] ELSE NUL

\* offset of the first byte of the value of the statement that starts at p
ValueStart(c, p) == FirstNonWs(c, NextOf(c, p, {EQ}) + 1)

\* pat occurs in s
Occurs(s, pat) ==
  \E i \in 0..(Len(s) - Len(pat)) : Slice(s, i, i + Len(pat)) = pat

\* no name of the mapping m is referenced in v, bare or braced
NoneDefined(v, m) ==
  \A n \in DOMAIN m :
    /\ ~Occurs(v, <<DOLLAR>> \o n)
    /\ ~Occurs(v, <<DOLLAR, LBRACE>> \o n)

\* least offset >= p whose byte cannot continue a key, or Len(c)
KeyEnd(c, p) ==
  CHOOSE i \in p..Len(c) :
    /\ i = Len(c) \/ ~isValidKeyChar(c[i + 1])
    /\ \A j \in p..(i - 1) : isValidKeyChar(c[j + 1])

\* s without its trailing spaces and tabs
WithoutTrailingWs(s) ==
  LET n == CHOOSE k \in 0..Len(s) :
             /\ k = 0 \/ s[k] \notin {SP, TAB}
             /\ \A j \in (k + 1)..Len(s) : s[j] \in {SP, TAB}
  IN  SubSeq(s, 1, n)

\* offset just past the line feed that ends the line holding offset p
NextLineStart(c, p) ==
  LET n == NextOf(c, p, {LF}) IN IF n < Len(c) THEN n + 1 ELSE n

\* offset of the first byte of the statement read from p: leading spaces and
\* tabs skipped
StmtStart(c, p) == FirstNonWs(c, p)

\* the read from p meets a blank line or a comment, not a statement
IsBlank(c, p) == ByteAt(c, StmtStart(c, p)) \in {NUL, LF, CR, HASH}

\* offset of the first byte of the key: the optional export prefix skipped
KeyStart(c, p) ==
  IF HasPrefixAt(c, StmtStart(c, p), ExportPrefix)
  THEN FirstNonWs(c, StmtStart(c, p) + 7)
  ELSE StmtStart(c, p)

\* offset of the byte that has to be the "=": key and whitespace skipped
AssignAt(c, p) == FirstNonWs(c, KeyEnd(c, KeyStart(c, p)))

\* a loop iteration of Parse (it moves the cursor or returns the error)
IterStep == pc = "parse" /\ (pc' = "error" \/ pos' # pos)

\* a loop iteration of Parse that stored an entry
EntryStep == pc = "parse" /\ pc' = "parse" /\ pos' # pos /\ result'.Key # <<>>

RECURSIVE ExpandOnce(_, _, _)
\* one left-to-right scan of s from offset i: each ${NAME} or $NAME is
\* replaced by m[NAME] or kept, and the text put in is not scanned again
ExpandOnce(s, i, m) ==
  IF i >= Len(s) THEN <<>>
  ELSE LET b == bracedMatchEnd(s, i)
           e == simpleMatchEnd(s, i)
       IN  IF b # -1
           THEN (IF Slice(s, i + 2, b - 1) \in DOMAIN m
                 THEN m[Slice(s, i + 2, b - 1)] ELSE Slice(s, i, b))
                  \o ExpandOnce(s, b, m)
           ELSE IF e # -1
           THEN (IF Slice(s, i + 1, e) \in DOMAIN m
                 THEN m[Slice(s, i + 1, e)] ELSE Slice(s, i, e))
                  \o ExpandOnce(s, e, m)
           ELSE <<s[i + 1]>> \o ExpandOnce(s, i + 1, m)

-----------------------------------------------------------------------------
(* Properties of Spec *)

\* C1: when Parse expands the value of an entry, references are looked up in
\* the mapping built from the earlier entries only: the step changes nothing
\* but the entry's own key; a value that references no earlier key (its own
\* key and keys defined later included) is stored as its literal text; a
\* value that is exactly $NAME or ${NAME} for an earlier key NAME is stored
\* as that key's earlier value (for the braced form, when that value holds
\* no dollar for the bare pass to scan).
C1_PriorEntriesOnly ==
  [][ (EntryStep /\ result'.AllowExpansion) =>
        LET r == result'
        IN  /\ r.Error = NoError
            /\ env' = Put(env, r.Key, env'[r.Key])
            /\ NoneDefined(r.Value, env) => env'[r.Key] = r.Value
            /\ \A n \in DOMAIN env :
                 /\ r.Value = <<DOLLAR>> \o n => env'[r.Key] = env[n]
                 /\ (/\ r.Value = <<DOLLAR, LBRACE>> \o n \o <<RBRACE>>
                     /\ ~Contains(env[n], DOLLAR)) => env'[r.Key] = env[n]
    ]_vars

\* C1 witness: A=$B y was expanded before B was defined, B was defined by the
\* next entry, and A still holds the literal reference.
C1_Witness ==
  /\ pc = "done"
  /\ HasPrefixAt(content, 0, <<"A", "=", "$", "B", " ", "y", LF, "B", "=">>)
  /\ <<"B">> \in DOMAIN env
  /\ env[<<"A">>] = <<"$", "B", " ", "y">>

\* C2: the quote context decides expansion: expansion is allowed exactly when
\* the value does not open with a single quote; a single-quoted value is
\* stored as the bytes between its quotes; a double-quoted or unquoted value
\* that is $NAME followed by plain text, NAME defined earlier, is stored as
\* NAME's value followed by that text.
C2_QuoteContext ==
  [][ EntryStep =>
        LET r == result'
            vs == ValueStart(content, pos)
            q == ByteAt(content, vs)
        IN  /\ r.AllowExpansion = (q # SQ)
            /\ q = SQ =>
                 env'[r.Key] = Slice(content, vs + 1, NextOf(content, vs + 1, {SQ}))
            /\ q # SQ =>
                 \A n \in DOMAIN env : \A rest \in {<<>>, <<SP, "y">>} :
                   r.Value = <<DOLLAR>> \o n \o rest => env'[r.Key] = env[n] \o rest
    ]_vars

\* C2 witness: with B defined as x, A='$B y' was stored unexpanded.
C2_Witness ==
  /\ pc = "done"
  /\ content = <<"B", "=", "x", LF, "A", "=", SQ, "$", "B", " ", "y", SQ>>
  /\ env[<<"B">>] = <<"x">>
  /\ env[<<"A">>] = <<"$", "B", " ", "y">>

\* C3: expansion never recurses: the stored value is the result of one scan
\* in which the text put in for a reference is not scanned again.
C3_NeverRecurses ==
  [][ (EntryStep /\ result'.AllowExpansion) =>
        env'[result'.Key] = ExpandOnce(result'.Value, 0, env)
    ]_vars

-----------------------------------------------------------------------------
(* Properties of SpecError *)

\* C5: parsing is all-or-nothing: a line that produces an error ends Parse at
\* once; Parse then returns that error and a nil mapping, however many
\* entries it had stored, and nothing after the failing line is parsed.
C5_AllOrNothing ==
  /\ [](result.Error.kind # "none" => pc = "error")
  /\ [](pc = "error" =>
          /\ ret.returned
          /\ ret.nil
          /\ ret.env = EmptyEnv
          /\ ret.err = result.Error
          /\ ret.err.kind # "none")
  /\ [][pc = "error" => UNCHANGED vars]_vars

\* C5 witness: Parse failed after it had stored A=x, with a further valid
\* line A=x left unread after the failing line.
C5_Witness ==
  /\ pc = "error"
  /\ ret.nil
  /\ <<"A">> \in DOMAIN env
  /\ \E i \in pos..(Len(content) - 1) :
       content[i + 1] = LF /\ HasPrefixAt(content, i + 1, <<"A", "=", "x">>)

\* C6: an unterminated-string error carries the number of the line on which
\* the value's opening quote stands.
C6_UnterminatedLine ==
  [][ (IterStep /\ pc' = "error" /\ ret'.err.kind = "UnterminatedString") =>
        ret'.err.line = LineOf(content, ValueStart(content, pos))
    ]_vars

\* C7: a statement whose first byte (after leading spaces/tabs and an optional
\* export prefix) cannot start a key fails with InvalidKey; a statement whose
\* key is not followed (after spaces/tabs) by "=" fails with MissingAssignment;
\* both carry the 1-based number of the physical line holding the statement.
C7_KeyErrorLines ==
  [][ (IterStep /\ ~IsBlank(content, pos)) =>
        LET ks == KeyStart(content, pos)
            n == LineOf(content, StmtStart(content, pos))
        IN  /\ ~isValidKeyStart(ByteAt(content, ks)) =>
                 pc' = "error" /\ ret'.err = InvalidKey(n)
            /\ (/\ isValidKeyStart(ByteAt(content, ks))
                /\ ByteAt(content, AssignAt(content, pos)) # EQ) =>
                 pc' = "error" /\ ret'.err = MissingAssignment(n)
    ]_vars

\* C7 witness: a missing "=" was reported on line 3, after a stored entry.
C7_Witness ==
  /\ pc = "error"
  /\ ret.err = MissingAssignment(3)
  /\ DOMAIN env # {}
  /\ LineOf(content, pos) = 3

\* C8: the error taxonomy is closed: every error of Parse is one of the
\* four kinds InvalidKey, MissingVariableName, MissingAssignment,
\* UnterminatedString; in particular a statement with a key and "=" whose
\* quoted value reaches the end of input before its closing quote (also
\* right after a backslash inside double quotes) fails with
\* UnterminatedString.
C8_FourErrorKinds ==
  /\ [](pc = "error" =>
          ret.err.kind \in {"InvalidKey", "MissingVariableName",
                            "MissingAssignment", "UnterminatedString"})
  /\ [][ (/\ IterStep
          /\ pc' = "error"
          /\ ~IsBlank(content, pos)
          /\ isValidKeyStart(ByteAt(content, KeyStart(content, pos)))
          /\ ByteAt(content, AssignAt(content, pos)) = EQ) =>
           ret'.err.kind = "UnterminatedString"
       ]_vars

-----------------------------------------------------------------------------
(* Properties of SpecValue *)

\* the bytes of the unquoted value that starts at offset vs: up to the first
\* "#", line feed or carriage return, trailing spaces and tabs removed
UnquotedText(c, vs) == WithoutTrailingWs(Slice(c, vs, NextOf(c, vs, {HASH, LF, CR})))

\* C9: for a value that does not start with a quote, the value stored in
\* the mapping is the bytes from the first non-space/tab byte after "=" up
\* to the first "#", LF or CR, trailing spaces and tabs removed and interior
\* whitespace kept; the "#" and what follows it on the line is discarded.
C9_UnquotedStored ==
  [][ (EntryStep /\ ByteAt(content, ValueStart(content, pos)) \notin {DQ, SQ}) =>
        env'[result'.Key] = UnquotedText(content, ValueStart(content, pos))
    ]_vars

\* C10: inside a quoted value a "#" is an ordinary byte (the value is the
\* bytes between the quotes when they hold no backslash); after the closing
\* quote a "#", with or without spaces/tabs before it, starts a comment that
\* is skipped through the end of the line, and the step changes no entry but
\* the statement's own.
C10_HashInQuotes ==
  [][ (/\ EntryStep
       /\ ByteAt(content, ValueStart(content, pos)) \in {DQ, SQ}
       /\ ~Contains(Slice(content, ValueStart(content, pos), Len(content)), BSL)) =>
        LET vs == ValueStart(content, pos)
            close == NextOf(content, vs + 1, {ByteAt(content, vs)})
            after == FirstNonWs(content, close + 1)
        IN  /\ result'.Value = Slice(content, vs + 1, close)
            /\ ~(result'.AllowExpansion /\ Contains(result'.Value, DOLLAR)) =>
                 env'[result'.Key] = Slice(content, vs + 1, close)
            /\ env' = Put(env, result'.Key, env'[result'.Key])
            /\ ByteAt(content, after) = HASH => pos' = NextLineStart(content, after)
            /\ ByteAt(content, after) # HASH => pos' = after
    ]_vars

\* C10 witness: A='x#y' <space><tab>#B=y stored A as "x#y" and defined no B.
C10_Witness ==
  /\ pc = "done"
  /\ content = <<"A", "=", SQ, "x", "#", "y", SQ, " ", TAB, "#", "B", "=", "y">>
  /\ env = (<<"A">> :> <<"x", "#", "y">>)

-----------------------------------------------------------------------------
(* SpecEscape: Parse over documents whose quoted values hold a backslash *)

MaxEscapeLines == 2

EscapedBytes == {"n", "t", "r", BSL, DQ, SQ, "q", DOLLAR, HASH}

EscapeLines ==
  { Assign("A", q, <<"a", BSL, ch, "b">>) : q \in {DQ, SQ}, ch \in EscapedBytes }

InitEscape ==
  /\ \E d \in DocsOf(EscapeLines, MaxEscapeLines) : NewParser(d)
  /\ input = EmptyEnv
  /\ file = <<>>
  /\ NoProcess

SpecEscape == InitEscape /\ [][Next]_vars

\* the bytes a backslash followed by ch stands for in a double-quoted value
EscapeMeaning(ch) ==
  IF ch = "n" THEN <<LF>>
  ELSE IF ch = "t" THEN <<TAB>>
  ELSE IF ch = "r" THEN <<CR>>
  ELSE IF ch \in {BSL, DQ, SQ} THEN <<ch>>
  ELSE <<BSL, ch>>

\* C11: in a double-quoted value "x\cy" the escape \c yields LF, TAB, CR,
\* backslash, double quote or single quote for c = n, t, r, \, ", ', and the
\* two bytes backslash c for any other c; an escaped double quote does not
\* close the value; in a single-quoted value the bytes up to the next single
\* quote are taken literally, backslashes included.
C11_Escapes ==
  [][ EntryStep =>
        LET vs == ValueStart(content, pos)
            q == ByteAt(content, vs)
        IN  /\ (/\ q = DQ
                /\ ByteAt(content, vs + 1) \notin {BSL, DQ, NUL}
                /\ ByteAt(content, vs + 2) = BSL
                /\ ByteAt(content, vs + 3) # NUL
                /\ ByteAt(content, vs + 4) \notin {BSL, DQ, NUL}
                /\ ByteAt(content, vs + 5) = DQ) =>
                 /\ result'.Value = <<ByteAt(content, vs + 1)>>
                                      \o EscapeMeaning(ByteAt(content, vs + 3))
                                      \o <<ByteAt(content, vs + 4)>>
                 /\ pos' >= vs + 6
            /\ q = SQ =>
                 /\ result'.Value = Slice(content, vs + 1, NextOf(content, vs + 1, {SQ}))
                 /\ env'[result'.Key] = result'.Value
    ]_vars

\* C11 witness: A="a\"b" was stored as a"b and A='a\nb' keeps its backslash.
C11_Witness ==
  /\ pc = "done"
  /\ content = <<"A", "=", DQ, "a", BSL, DQ, "b", DQ, LF,
                 "A", "=", SQ, "a", BSL, "n", "b", SQ>>
  /\ env[<<"A">>] = <<"a", BSL, "n", "b">>
  /\ result.Value = <<"a", BSL, "n", "b">>

-----------------------------------------------------------------------------
(* SpecEmpty: Parse over documents with empty values *)

MaxEmptyLines == 2

EmptyLines ==
  { <<"A", "=">>,
    <<"A", "=", SP, TAB>>,
    <<"A", "=", DQ, DQ>>,
    <<"A", "=", SQ, SQ>>,
    <<"e", "x", "p", "o", "r", "t", SP, "B", "=">>,
    <<"B", SP, "=", SQ, SQ>>,
    <<"B", "=", "x">>,
    <<"A", "=", "$", "B">>,
    <<"B", "=", DQ, "$", "A", DQ>>,
    <<"#", "c">>,
    <<"A", "=", SP, "#", "c">>,
    <<"A", "=", DQ, SP, DQ>>,
    <<"A", "=", DQ, DQ, "x">>,
    <<"B", "=", SP, DQ, DQ>> }

InitEmpty ==
  /\ \E d \in DocsOf(EmptyLines, MaxEmptyLines) : NewParser(d)
  /\ input = EmptyEnv
  /\ file = <<>>
  /\ NoProcess

SpecEmpty == InitEmpty /\ [][Next]_vars

\* the statement read from p has a valid key, then "=", then nothing, only
\* spaces and tabs, "" or '' up to the end of the line or of the input
EmptyAssignment(c, p) ==
  LET ks == KeyStart(c, p)
      a == AssignAt(c, p)
      v == FirstNonWs(c, a + 1)
  IN  /\ ~IsBlank(c, p)
      /\ isValidKeyStart(ByteAt(c, ks))
      /\ ByteAt(c, a) = EQ
      /\ \/ ByteAt(c, v) \in {NUL, LF}
         \/ /\ ByteAt(c, v) \in {DQ, SQ}
            /\ ByteAt(c, v + 1) = ByteAt(c, v)
            /\ ByteAt(c, v + 2) \in {NUL, LF}

\* C12: a key whose "=" is followed by nothing, by spaces and tabs only, by
\* "" or by '' (then end of line or end of input) is stored with the empty
\* string as its value: the iteration reports no error and the key is present
\* in the mapping with value "".
C12_EmptyValuePresent ==
  [][ (pc = "parse" /\ pos < Len(content) /\ EmptyAssignment(content, pos)) =>
        LET k == Slice(content, KeyStart(content, pos),
                       KeyEnd(content, KeyStart(content, pos)))
        IN  /\ pc' = "parse"
            /\ result'.Error = NoError
            /\ result'.Key = k
            /\ k \in DOMAIN env'
            /\ env'[k] = <<>>
    ]_vars

\* C12 witness: A="" and export B= were parsed and both keys are present
\* with the empty string.
C12_Witness ==
  /\ pc = "done"
  /\ content = <<"A", "=", DQ, DQ, LF,
                 "e", "x", "p", "o", "r", "t", " ", "B", "=">>
  /\ ret.err = NoError
  /\ DOMAIN ret.env = {<<"A">>, <<"B">>}
  /\ ret.env[<<"A">>] = <<>>
  /\ ret.env[<<"B">>] = <<>>

-----------------------------------------------------------------------------
(* SpecDup: Parse over documents that assign a key more than once *)

MaxDupLines == 3

DupLines ==
  { <<"A", "=", "1">>,
    <<"A", "=", "2">>,
    <<"B", "=", "$", "A">>,
    <<"B", "=", DQ, "$", "{", "A", "}", DQ>>,
    <<"B", "=", "x">>,
    <<"A", "=", SQ, "$", "B", SQ>> }

InitDup ==
  /\ \E d \in DocsOf(DupLines, MaxDupLines) : NewParser(d)
  /\ input = EmptyEnv
  /\ file = <<>>
  /\ NoProcess

SpecDup == InitDup /\ [][Next]_vars

\* C13: an assignment replaces the entry of its key and touches no other
\* entry: after it the mapping has one entry for the key, holding the
\* (expanded) value of this, the latest, assignment, and every other key,
\* also one whose value was expanded from an earlier assignment of this key,
\* keeps the value it had.  (The expanded value is the one left-to-right
\* substitution over the earlier entries when none of them holds a dollar,
\* and the literal text where expansion is not allowed.)
C13_LastAssignmentWins ==
  [][ EntryStep =>
        LET r == result'
        IN  /\ DOMAIN env' = DOMAIN env \cup {r.Key}
            /\ \A k \in DOMAIN env : k # r.Key => env'[k] = env[k]
            /\ ~r.AllowExpansion => env'[r.Key] = r.Value
            /\ (r.AllowExpansion /\ \A n \in DOMAIN env : ~Contains(env[n], DOLLAR)) =>
                 env'[r.Key] = ExpandOnce(r.Value, 0, env)
    ]_vars

\* C13 witness: A=1, B=$A, A=2 was parsed: A holds 2 and B still holds 1.
C13_Witness ==
  /\ pc = "done"
  /\ content = <<"A", "=", "1", LF, "B", "=", "$", "A", LF, "A", "=", "2">>
  /\ DOMAIN ret.env = {<<"A">>, <<"B">>}
  /\ ret.env[<<"A">>] = <<"2">>
  /\ ret.env[<<"B">>] = <<"1">>

-----------------------------------------------------------------------------
(* SpecExport: Parse over documents whose statements carry the export prefix *)

MaxExportLines == 2

ExportLines ==
  { <<"e", "x", "p", "o", "r", "t", SP, "A", "=", "x">>,
    <<"e", "x", "p", "o", "r", "t", SP, SP, "A", "=", DQ, "x", SP, "y", DQ>>,
    <<"e", "x", "p", "o", "r", "t", SP, TAB, "B", "=", SQ, "z", SQ>>,
    <<"e", "x", "p", "o", "r", "t", SP, "e", "x", "p", "o", "r", "t", SP, "A", "=", "x">>,
    <<"e", "x", "p", "o", "r", "t", SP, "e", "x", "p", "o", "r", "t", "=", "x">>,
    <<"e", "x", "p", "o", "r", "t", SP, "B", "=", "$", "A">>,
    <<"A", "=", "x">>,
    <<"e", "x", "p", "o", "r", "t", SP, "A">>,
    <<"e", "x", "p", "o", "r", "t", SP, "1", "=", "x">>,
    <<"e", "x", "p", "o", "r", "t", SP, "#", "c">>,
    <<"e", "x", "p", "o", "r", "t", SP, SP, "e", "x", "p", "o", "r", "t", SP, "B", "=", "y">>,
    <<"e", "x", "p", "o", "r", "t", SP, "A", "=", DQ, "x">>,
    <<SP, "e", "x", "p", "o", "r", "t", SP, "A", "=", "x">>,
    <<"e", "x", "p", "o", "r", "t", SP, "A", "=", SP, "x", SP, "#", "c">> }

InitExport ==
  /\ \E d \in DocsOf(ExportLines, MaxExportLines) : NewParser(d)
  /\ input = EmptyEnv
  /\ file = <<>>
  /\ NoProcess

SpecExport == InitExport /\ [][Next]_vars

\* the text that follows the export prefix found at offset p of c
Unprefixed(c, p) == Slice(c, p + 7, Len(c))

\* ParseLine on the text l parses a statement: no error and a key
ParsesStatement(l) ==
  LET r == ParseLine(l, NewTokenizer).res
  IN  r.Error = NoError /\ r.Key # <<>>

\* the read from p parses "export " \o L exactly as L parses on its own
SameAsUnprefixed(c, p, r) ==
  LET q == ParseLine(Unprefixed(c, p), NewTokenizer).res
  IN  /\ r.Error = NoError
      /\ r.Key = q.Key
      /\ r.Value = q.Value
      /\ r.AllowExpansion = q.AllowExpansion

\* C14 as stated: for every statement line L that ParseLine parses to a key,
\* a value and a flag, the line "export " \o L parses to the same key, value
\* and flag.
C14_ExportNoEffect ==
  [][ (/\ pc = "parse"
       /\ HasPrefixAt(content, pos, ExportPrefix)
       /\ ParsesStatement(Unprefixed(content, pos))) =>
        SameAsUnprefixed(content, pos, result')
    ]_vars

\* C14 amended: the same for every statement line L that does not itself
\* begin (after leading spaces and tabs) with the export prefix.
C14_ExportOnce ==
  [][ (/\ pc = "parse"
       /\ HasPrefixAt(content, pos, ExportPrefix)
       /\ ParsesStatement(Unprefixed(content, pos))
       /\ ~HasPrefixAt(Unprefixed(content, pos),
                       FirstNonWs(Unprefixed(content, pos), 0), ExportPrefix)) =>
        SameAsUnprefixed(content, pos, result')
    ]_vars

\* C14 witness: export  A="x y" was parsed to key A, value x y, expansion
\* allowed, as  A="x y" is.
C14_Witness ==
  /\ content = <<"e", "x", "p", "o", "r", "t", " ", " ", "A", "=", DQ, "x", " ", "y", DQ>>
  /\ pos = Len(content)
  /\ result = LineResult(<<"A">>, <<"x", " ", "y">>, TRUE, NoError)
  /\ ParseLine(Unprefixed(content, 0), NewTokenizer).res = result

-----------------------------------------------------------------------------
(* SpecTotal: Parse run to its return; the loop of Parse keeps iterating   *)
(* until its condition fails or an error returns                            *)

MaxTotalLines == 3

TotalLines ==
  { <<>>,
    <<SP, TAB>>,
    <<"#", "c">>,
    <<"A", "=", "x">>,
    <<"B", "=", "x", SP, "#", "c">>,
    <<"A", "=", SQ, "x", LF, "y", SQ>>,
    <<"A">>,
    <<"A", "=", DQ, "x">>,
    <<"A", "=", "x", CR>>,
    <<"e", "x", "p", "o", "r", "t", SP, "B", "=", DQ, "$", "A", DQ>> }

InitTotal ==
  /\ \E d \in DocsOf(TotalLines, MaxTotalLines) : NewParser(d)
  /\ input = EmptyEnv
  /\ file = <<>>
  /\ NoProcess

\* the loop runs on: weak fairness of both steps.  For ParseIter the
\* condition is written out, WF_vars(A) being []<>~ENABLED <<A>>_vars \/
\* []<><<A>>_vars and ParseIter being enabled exactly when its guard holds
FairParseIter ==
  \/ []<>(pc # "parse" \/ pos >= Len(content))
  \/ []<><<ParseIter>>_vars

SpecTotal == InitTotal /\ [][Next]_vars /\ WF_vars(ParseReturn) /\ FairParseIter

\* C15: Parse is total: the loop terminates, with a mapping and no error or
\* with an error and no mapping, and every iteration made while input
\* remains returns the error or strictly advances the cursor (which never
\* passes the end of the text).
C15_Total ==
  /\ <>(pc \in {"done", "error"})
  /\ [][ (pc = "parse" /\ pos < Len(content)) =>
           (pc' = "error" \/ (pos' > pos /\ pos' <= Len(content))) ]_vars
  /\ [](pc = "done" => ret.returned /\ ~ret.nil /\ ret.env = env /\ ret.err = NoError)
  /\ [](pc = "error" => ret.returned /\ ret.nil /\ ret.err # NoError)
  /\ [](pc = "parse" => ~ret.returned)

\* C15 witness: a three-line document with a blank line and a comment was
\* parsed to its end and Parse returned the mapping.
C15_Witness ==
  /\ pc = "done"
  /\ content = <<"A", "=", SQ, "x", LF, "y", SQ, LF, " ", TAB, LF, "#", "c">>
  /\ pos = Len(content)
  /\ ret.returned
  /\ ret.env = (<<"A">> :> <<"x", LF, "y">>)

-----------------------------------------------------------------------------
(* SpecBlank: Parse over documents with blank lines and full-line comments *)

MaxBlankLines == 3

BlankLines ==
  { <<>>,
    <<SP>>,
    <<TAB, SP>>,
    <<"#", "c">>,
    <<SP, "#", SP, "A", "=", "x">>,
    <<"#", "A", "=", "x">>,
    <<"A", "=", "x">>,
    <<"B", "=", DQ, "y", DQ>> }

InitBlank ==
  /\ \E d \in DocsOf(BlankLines, MaxBlankLines) : NewParser(d)
  /\ input = EmptyEnv
  /\ file = <<>>
  /\ NoProcess

SpecBlank == InitBlank /\ [][Next]_vars

\* the offsets at which a physical line of c starts
LineStarts(c) == { p \in 0..Len(c) : p = 0 \/ c[p] = LF }

\* every line of c is blank, whitespace only or a full-line comment
OnlyBlankLines(c) == \A p \in LineStarts(c) : IsBlank(c, p)

\* C16: an iteration that reads a blank line, a whitespace-only line or a
\* full-line comment reports no error, leaves every entry as it is and moves
\* to the next line; a document made only of such lines parses to the empty
\* mapping without error; and a key is defined only by a statement line read
\* so far, never by a comment such as # KEY=value.
C16_BlankAndComment ==
  /\ [][ (pc = "parse" /\ pos < Len(content) /\ IsBlank(content, pos)) =>
           /\ pc' = "parse"
           /\ env' = env
           /\ result'.Key = <<>>
           /\ result'.Error = NoError
           /\ pos' = NextLineStart(content, pos) ]_vars
  /\ [](OnlyBlankLines(content) =>
           /\ pc # "error"
           /\ env = EmptyEnv
           /\ pc = "done" => (~ret.nil /\ ret.env = EmptyEnv /\ ret.err = NoError))
  /\ [](\A k \in DOMAIN env :
           \E p \in LineStarts(content) :
             /\ p < pos
             /\ ~IsBlank(content, p)
             /\ Slice(content, KeyStart(content, p), KeyEnd(content, KeyStart(content, p))) = k)

\* C16 witness: #A=x, a whitespace-only line and B="y" were parsed: B is
\* defined and the commented-out A is not.
C16_Witness ==
  /\ pc = "done"
  /\ content = <<"#", "A", "=", "x", LF, TAB, " ", LF, "B", "=", DQ, "y", DQ>>
  /\ ret.err = NoError
  /\ ret.env = (<<"B">> :> <<"y">>)

-----------------------------------------------------------------------------
(* Expansion and the quoting of the value (README, "Variable expansion") *)

\* C17: expansion only works in double quotes: a value that is not
\* double-quoted is stored as its literal text, references to earlier keys
\* included.
C17_OnlyDoubleQuotesExpand ==
  [][ (EntryStep /\ ByteAt(content, ValueStart(content, pos)) # DQ) =>
        env'[result'.Key] = result'.Value
    ]_vars

-----------------------------------------------------------------------------
(* Typed accessors (typed.go) over the process environment.  osenv is the  *)
(* process environment, out the record of the last call: the function, its *)
(* key, the variadic defaults and the value returned                       *)

\* the parser is not in use: a typed call or Unmarshal is about to be made
NoParser ==
  /\ content = <<>>
  /\ pos = 0
  /\ line = 1
  /\ col = 1
  /\ env = EmptyEnv
  /\ result = NoResult
  /\ pc = "call"
  /\ ret = NotReturned
  /\ input = EmptyEnv
  /\ file = <<>>

\* os.LookupEnv(key) on the process environment e
LookupEnv(e, key) ==
  IF key \in DOMAIN e THEN [value |-> e[key], exists |-> TRUE]
  ELSE [value |-> <<>>, exists |-> FALSE]

\* the record of a call of the accessor fn
Called(fn, key, defaultValue, value) ==
  [fn |-> fn, key |-> key, defaultValue |-> defaultValue, value |-> value]

\* the largest number of variadic default arguments passed to an accessor
MaxDefaults == 1

\* the argument lists of at most MaxDefaults values of S
DefaultsOf(S) == UNION { [1..n -> S] : n \in 0..MaxDefaults }

\* the variable the calls read, and one that is never set
TypedKeys == {<<"K">>, <<"U">>}

\* the error os.Setenv returns for key
SetFailed(key) == [what |-> "setenv", key |-> key]

\* the nil error
NilError == [what |-> "nil", key |-> <<>>]

\* os.Setenv that refuses no name
Setenv_AcceptsAll(e, key, value) ==
  [env |-> Put(e, key, value), ok |-> TRUE]

\* os.Setenv(key, value) on the environment e: the environment afterwards
\* and whether the call succeeded; an empty name, a name holding '=' or NUL
\* and a value holding NUL are refused (EINVAL)
Setenv(e, key, value) ==
  IF \/ key = <<>>
     \/ \E i \in 1..Len(key) : key[i] \in {EQ, NUL}
     \/ \E i \in 1..Len(value) : value[i] = NUL
  THEN [env |-> e, ok |-> FALSE]
  ELSE [env |-> Put(e, key, value), ok |-> TRUE]

\* SetEnv(key, value): os.Setenv's outcome
SetEnv(e, key, value) == Setenv(e, key, value)

\* UnsetEnv(key): os.Unsetenv's outcome, the environment without the
\* variable; the call does not fail
UnsetEnv(e, key) == [env |-> [k \in DOMAIN e \ {key} |-> e[k]], ok |-> TRUE]

\* HasEnv(key)
HasEnv(e, key) == LookupEnv(e, key).exists

\* the names and values SetEnv, UnsetEnv and HasEnv are called with: the
\* variable the accessors read, and names and a value that os.Setenv
\* refuses
SetKeys == {<<"K">>, <<>>, <<"K", EQ>>}
SetValues == {<<"5">>, <<>>, <<"5", NUL>>}

\* what a call fn of SetEnv or UnsetEnv with key and value leaves, s being
\* the outcome of the call on the process environment
envChanged(fn, key, value, s) ==
  /\ osenv' = s.env
  /\ out' = [fn |-> fn, key |-> key, value |-> value,
             err |-> IF s.ok THEN NilError ELSE SetFailed(key)]

\* a call of SetEnv
CallSetEnv ==
  /\ pc = "call"
  /\ \E key \in SetKeys, value \in SetValues :
       envChanged("SetEnv", key, value, SetEnv(osenv, key, value))
  /\ UNCHANGED <<content, pos, line, col, env, result, pc, ret, input, file,
                 source, pending, target>>

\* a call of UnsetEnv
CallUnsetEnv ==
  /\ pc = "call"
  /\ \E key \in SetKeys : envChanged("UnsetEnv", key, <<>>, UnsetEnv(osenv, key))
  /\ UNCHANGED <<content, pos, line, col, env, result, pc, ret, input, file,
                 source, pending, target>>

\* a call of HasEnv
CallHasEnv ==
  /\ pc = "call"
  /\ \E key \in SetKeys : out' = Called("HasEnv", key, <<>>, HasEnv(osenv, key))
  /\ UNCHANGED <<content, pos, line, col, env, result, pc, ret, input, file,
                 osenv, source, pending, target>>

\* strconv.ParseBool(str)
ParseBool(str) ==
  IF str \in {<<"1">>, <<"t">>, <<"T">>, <<"T", "R", "U", "E">>,
              <<"t", "r", "u", "e">>, <<"T", "r", "u", "e">>}
  THEN [val |-> TRUE, ok |-> TRUE]
  ELSE IF str \in {<<"0">>, <<"f">>, <<"F">>, <<"F", "A", "L", "S", "E">>,
                   <<"f", "a", "l", "s", "e">>, <<"F", "a", "l", "s", "e">>}
  THEN [val |-> FALSE, ok |-> TRUE]
  ELSE [val |-> FALSE, ok |-> FALSE]

\* EnvBool(key, defaultValue...)
EnvBool(e, key, defaultValue) ==
  LET l == LookupEnv(e, key)
      b == ParseBool(l.value)
  IN  IF ~l.exists \/ ~b.ok
      THEN (IF Len(defaultValue) > 0 THEN defaultValue[1] ELSE FALSE)
      ELSE b.val

\* a call of EnvBool
CallEnvBool ==
  /\ pc = "call"
  /\ \E key \in TypedKeys, d \in DefaultsOf(BOOLEAN) :
       out' = Called("EnvBool", key, d, EnvBool(osenv, key, d))
  /\ pc' = "returned"
  /\ UNCHANGED <<content, pos, line, col, env, result, ret, input, file,
                 osenv, source, pending, target>>

-----------------------------------------------------------------------------
(* SpecBool: EnvBool over the spellings of the boolean literals *)

UpperSeq == <<"A", "B", "C", "D", "E", "F", "G", "H", "I", "J", "K", "L", "M",
              "N", "O", "P", "Q", "R", "S", "T", "U", "V", "W", "X", "Y", "Z">>
LowerSeq == <<"a", "b", "c", "d", "e", "f", "g", "h", "i", "j", "k", "l", "m",
              "n", "o", "p", "q", "r", "s", "t", "u", "v", "w", "x", "y", "z">>

\* the upper-case and the lower-case form of a byte
ToUpperByte(ch) ==
  IF \E i \in 1..26 : LowerSeq[i] = ch
  THEN UpperSeq[CHOOSE i \in 1..26 : LowerSeq[i] = ch] ELSE ch
ToLowerByte(ch) ==
  IF \E i \in 1..26 : UpperSeq[i] = ch
  THEN LowerSeq[CHOOSE i \in 1..26 : UpperSeq[i] = ch] ELSE ch

\* s with every letter in lower case
ToLower(s) == [i \in 1..Len(s) |-> ToLowerByte(s[i])]

RECURSIVE CaseVariants(_)
\* the spellings of the lower-case word w in every mix of letter cases
CaseVariants(w) ==
  IF w = <<>> THEN {<<>>}
  ELSE { <<h>> \o t : h \in {w[1], ToUpperByte(w[1])}, t \in CaseVariants(Tail(w)) }

TrueWords == {<<"t", "r", "u", "e">>, <<"1">>, <<"y", "e", "s">>, <<"o", "n">>}
FalseWords == {<<"f", "a", "l", "s", "e">>, <<"0">>, <<"n", "o">>, <<"o", "f", "f">>}

BoolTexts ==
  UNION { CaseVariants(w) : w \in TrueWords \cup FalseWords \cup {<<"t">>, <<"f">>} }
    \cup {<<>>, <<"2">>, <<"y">>, <<"n">>, <<"t", "r", "u">>, <<" ", "t", "r", "u", "e">>,
          <<"0", "1">>, <<"e", "n", "a", "b", "l", "e", "d">>}

InitBool ==
  /\ NoParser
  /\ NoMarshal
  /\ osenv \in {EmptyEnv} \cup { (<<"K">> :> s) : s \in BoolTexts }
  /\ out = NoCall
  /\ target = <<>>

NextBool == CallEnvBool

SpecBool == InitBool /\ [][NextBool]_vars

\* C18: EnvBool accepts exactly true, false, 1, 0, yes, no, on, off in any
\* letter case: for a set variable it returns true for true/1/yes/on and
\* false for false/0/no/off whatever the default, and for every other text
\* it returns the default (false without one).
C18_BoolLiterals ==
  (out.fn = "EnvBool" /\ out.key \in DOMAIN osenv) =>
    LET low == ToLower(osenv[out.key])
    IN  IF low \in TrueWords THEN out.value = TRUE
        ELSE IF low \in FalseWords THEN out.value = FALSE
        ELSE out.value = (IF Len(out.defaultValue) > 0 THEN out.defaultValue[1] ELSE FALSE)

-----------------------------------------------------------------------------
(* Integer conversions (strconv.Atoi, ParseInt, ParseUint in base 10).  An *)
(* integer is a sign and a magnitude in decimal digits without leading     *)
(* zeros, so that 64-bit values keep their full width                       *)

DigitSeq == <<"0", "1", "2", "3", "4", "5", "6", "7", "8", "9">>

\* the value of a decimal digit
DigitValues == [ch \in Digit |-> (CHOOSE i \in 1..10 : DigitSeq[i] = ch) - 1]
DigitVal(ch) == DigitValues[ch]

\* s is made of decimal digits only
IsDigits(s) == \A i \in 1..Len(s) : s[i] \in Digit

\* the digits of s without leading zeros (one digit is kept)
StripZeros(s) ==
  IF Len(s) <= 1 THEN s
  ELSE SubSeq(s, CHOOSE k \in 1..Len(s) :
                   /\ k = Len(s) \/ s[k] # "0"
                   /\ \A j \in 1..(k - 1) : s[j] = "0",
              Len(s))

\* a < b for magnitudes without leading zeros
DecLess(a, b) ==
  \/ Len(a) < Len(b)
  \/ /\ Len(a) = Len(b)
     /\ \E i \in 1..Len(a) :
          /\ DigitVal(a[i]) < DigitVal(b[i])
          /\ \A j \in 1..(i - 1) : a[j] = b[j]

\* 2^k in decimal digits, for the widths of the integer types
Pow2Dec(k) ==
  CASE k = 7 -> <<"1", "2", "8">>
    [] k = 8 -> <<"2", "5", "6">>
    [] k = 15 -> <<"3", "2", "7", "6", "8">>
    [] k = 16 -> <<"6", "5", "5", "3", "6">>
    [] k = 31 -> <<"2", "1", "4", "7", "4", "8", "3", "6", "4", "8">>
    [] k = 32 -> <<"4", "2", "9", "4", "9", "6", "7", "2", "9", "6">>
    [] k = 63 -> <<"9", "2", "2", "3", "3", "7", "2", "0", "3", "6", "8", "5", "4", "7", "7", "5", "8", "0", "8">>
    [] k = 64 -> <<"1", "8", "4", "4", "6", "7", "4", "4", "0", "7", "3", "7", "0", "9", "5", "5", "1", "6", "1", "6">>

\* an integer value: a sign and a magnitude
IntVal(neg, mag) == [neg |-> neg, mag |-> mag]

ZeroInt == IntVal(FALSE, <<"0">>)

\* the outcome of a conversion: the value and no error, or an error
Converted(v) == [val |-> v, err |-> "none"]
SyntaxError == [val |-> ZeroInt, err |-> "syntax"]
RangeError == [val |-> ZeroInt, err |-> "range"]

\* strconv.ParseUint(s, 10, bitSize)
ParseUint(s, bitSize) ==
  IF s = <<>> \/ ~IsDigits(s) THEN SyntaxError
  ELSE LET m == StripZeros(s)
       IN  IF ~DecLess(m, Pow2Dec(bitSize)) THEN RangeError
           ELSE Converted(IntVal(FALSE, m))

\* strconv.ParseInt(s, 10, bitSize)
ParseInt(s, bitSize) ==
  IF s = <<>> THEN SyntaxError
  ELSE LET neg == s[1] = "-"
           rest == IF s[1] \in {"+", "-"} THEN Tail(s) ELSE s
       IN  IF rest = <<>> \/ ~IsDigits(rest) THEN SyntaxError
           ELSE LET m == StripZeros(rest)
                    cutoff == Pow2Dec(bitSize - 1)
                IN  IF ~neg /\ ~DecLess(m, cutoff) THEN RangeError
                    ELSE IF neg /\ DecLess(cutoff, m) THEN RangeError
                    ELSE Converted(IntVal(neg /\ m # <<"0">>, m))

\* strconv.Atoi(s): the int of a 64-bit build
Atoi(s) == ParseInt(s, 64)

\* EnvInt(key, defaultValue...)
EnvInt(e, key, defaultValue) ==
  LET l == LookupEnv(e, key)
      p == Atoi(l.value)
  IN  IF ~l.exists \/ p.err # "none"
      THEN (IF Len(defaultValue) > 0 THEN defaultValue[1] ELSE ZeroInt)
      ELSE p.val

\* EnvInt8(key, defaultValue...)
EnvInt8(e, key, defaultValue) ==
  LET l == LookupEnv(e, key)
      p == ParseInt(l.value, 8)
  IN  IF ~l.exists \/ p.err # "none"
      THEN (IF Len(defaultValue) > 0 THEN defaultValue[1] ELSE ZeroInt)
      ELSE p.val

\* EnvInt16(key, defaultValue...)
EnvInt16(e, key, defaultValue) ==
  LET l == LookupEnv(e, key)
      p == ParseInt(l.value, 16)
  IN  IF ~l.exists \/ p.err # "none"
      THEN (IF Len(defaultValue) > 0 THEN defaultValue[1] ELSE ZeroInt)
      ELSE p.val

\* EnvInt32(key, defaultValue...)
EnvInt32(e, key, defaultValue) ==
  LET l == LookupEnv(e, key)
      p == ParseInt(l.value, 32)
  IN  IF ~l.exists \/ p.err # "none"
      THEN (IF Len(defaultValue) > 0 THEN defaultValue[1] ELSE ZeroInt)
      ELSE p.val

\* EnvInt64(key, defaultValue...)
EnvInt64(e, key, defaultValue) ==
  LET l == LookupEnv(e, key)
      p == ParseInt(l.value, 64)
  IN  IF ~l.exists \/ p.err # "none"
      THEN (IF Len(defaultValue) > 0 THEN defaultValue[1] ELSE ZeroInt)
      ELSE p.val

\* EnvUint(key, defaultValue...)
EnvUint(e, key, defaultValue) ==
  LET l == LookupEnv(e, key)
      p == ParseUint(l.value, 64)
  IN  IF ~l.exists \/ p.err # "none"
      THEN (IF Len(defaultValue) > 0 THEN defaultValue[1] ELSE ZeroInt)
      ELSE p.val

\* EnvUint8(key, defaultValue...)
EnvUint8(e, key, defaultValue) ==
  LET l == LookupEnv(e, key)
      p == ParseUint(l.value, 8)
  IN  IF ~l.exists \/ p.err # "none"
      THEN (IF Len(defaultValue) > 0 THEN defaultValue[1] ELSE ZeroInt)
      ELSE p.val

\* EnvUint16(key, defaultValue...)
EnvUint16(e, key, defaultValue) ==
  LET l == LookupEnv(e, key)
      p == ParseUint(l.value, 16)
  IN  IF ~l.exists \/ p.err # "none"
      THEN (IF Len(defaultValue) > 0 THEN defaultValue[1] ELSE ZeroInt)
      ELSE p.val

\* EnvUint32(key, defaultValue...)
EnvUint32(e, key, defaultValue) ==
  LET l == LookupEnv(e, key)
      p == ParseUint(l.value, 32)
  IN  IF ~l.exists \/ p.err # "none"
      THEN (IF Len(defaultValue) > 0 THEN defaultValue[1] ELSE ZeroInt)
      ELSE p.val

\* EnvUint64(key, defaultValue...)
EnvUint64(e, key, defaultValue) ==
  LET l == LookupEnv(e, key)
      p == ParseUint(l.value, 64)
  IN  IF ~l.exists \/ p.err # "none"
      THEN (IF Len(defaultValue) > 0 THEN defaultValue[1] ELSE ZeroInt)
      ELSE p.val

-----------------------------------------------------------------------------
(* Natural numbers of any size, for the exact value of a float and for the *)
(* rounding of a ratio to a binary floating-point number.  A number is a   *)
(* sequence of limbs, numbers below 10^4, the least significant first and  *)
(* the last not zero; zero has no limbs                                    *)

RECURSIVE NatToDec(_)
\* the decimal digits of the natural number n
NatToDec(n) ==
  IF n < 10 THEN <<DigitSeq[n + 1]>>
  ELSE NatToDec(n \div 10) \o <<DigitSeq[(n % 10) + 1]>>

\* n zeros
Zeros(n) == SubSeq([i \in 1..n |-> "0"], 1, n)

\* s without its trailing zeros
DropTrailingZeros(s) ==
  SubSeq(s, 1, CHOOSE k \in 0..Len(s) :
                 /\ k = 0 \/ s[k] # "0"
                 /\ \A j \in (k + 1)..Len(s) : s[j] = "0")

\* s without its leading zeros (none is kept)
DropLeadingZeros(s) ==
  SubSeq(s, CHOOSE k \in 1..(Len(s) + 1) :
              /\ k = Len(s) + 1 \/ s[k] # "0"
              /\ \A j \in 1..(k - 1) : s[j] = "0",
         Len(s))

\* the radix of the limbs: four decimal digits to a limb
Base == 10 ^ 4

\* limb i of a, zero beyond its limbs
LimbAt(a, i) == IF i >= 1 /\ i <= Len(a) THEN a[i] ELSE 0

\* the limbs s without the zeros at their end
Trim(s) ==
  IF s = <<>> THEN s
  ELSE
  SubSeq(s, 1, CHOOSE j \in 0..Len(s) :
                 /\ j = 0 \/ s[j] # 0
                 /\ \A p \in (j + 1)..Len(s) : s[p] = 0)

\* digit p of the decimal digits s, counted from the last, zero beyond the
\* first
DigitFromEnd(s, p) == IF p <= Len(s) THEN DigitVal(s[Len(s) - p + 1]) ELSE 0

\* the number written by the decimal digits s
DecToBig(s) ==
  IF s = <<>> THEN <<>>
  ELSE
  Trim(SubSeq([i \in 1..((Len(s) + 3) \div 4) |->
                 DigitFromEnd(s, 4 * i - 3) + 10 * DigitFromEnd(s, 4 * i - 2)
                   + 100 * DigitFromEnd(s, 4 * i - 1) + 1000 * DigitFromEnd(s, 4 * i)],
              1, (Len(s) + 3) \div 4))

\* the decimal digits that the limb x < Base has less than four
LeadZeros(x) == IF x >= 1000 THEN 0 ELSE IF x >= 100 THEN 1 ELSE IF x >= 10 THEN 2 ELSE 3

\* the number of decimal digits of a > 0
BigDigits(a) == 4 * Len(a) - LeadZeros(a[Len(a)])

\* the decimal digits of a
BigToDec(a) ==
  IF a = <<>> THEN <<"0">>
  ELSE SubSeq([j \in 1..(4 * Len(a)) |->
                 DigitSeq[((a[Len(a) - ((j - 1) \div 4)] \div (10 ^ (3 - ((j - 1) % 4)))) % 10) + 1]],
              LeadZeros(a[Len(a)]) + 1, 4 * Len(a))

\* 10^k
TenPow(k) == DecToBig(<<"1">> \o Zeros(k))

\* a < b
BigLess(a, b) ==
  \/ Len(a) < Len(b)
  \/ /\ Len(a) = Len(b)
     /\ \E i \in 1..Len(a) :
          /\ a[i] < b[i]
          /\ \A j \in (i + 1)..Len(a) : a[j] = b[j]

\* a carry of one comes into column i of the columns s, numbers up to
\* 2 * Base - 2: a column below it holds Base or more, and each column
\* between them holds Base - 1
CarryInto(s, i) ==
  \E j \in 1..(i - 1) :
    /\ s[j] >= Base
    /\ \A p \in (j + 1)..(i - 1) : s[p] = Base - 1

\* the number whose columns are s
Carried(s) ==
  IF s = <<>> THEN s
  ELSE
  Trim(SubSeq([i \in 1..(Len(s) + 1) |->
                 (LimbAt(s, i) + (IF CarryInto(s, i) THEN 1 ELSE 0)) % Base],
              1, Len(s) + 1))

\* a + b
BigAdd(a, b) ==
  IF a = <<>> THEN b
  ELSE IF b = <<>> THEN a
  ELSE
  Carried(SubSeq([i \in 1..(Len(a) + Len(b)) |-> LimbAt(a, i) + LimbAt(b, i)],
                 1, IF Len(a) > Len(b) THEN Len(a) ELSE Len(b)))

\* a borrow of one comes into limb i of a - b: a limb of a below it is less
\* than that of b, and the limbs between them are equal
BorrowInto(a, b, i) ==
  \E j \in 1..(i - 1) :
    /\ a[j] < LimbAt(b, j)
    /\ \A p \in (j + 1)..(i - 1) : a[p] = LimbAt(b, p)

\* a - b for a >= b
BigSub(a, b) ==
  IF b = <<>> THEN a
  ELSE
  Trim(SubSeq([i \in 1..Len(a) |->
                 (a[i] - LimbAt(b, i) - (IF BorrowInto(a, b, i) THEN 1 ELSE 0) + Base) % Base],
              1, Len(a)))

\* a * k for a factor 0 <= k <= Base: the low part of the product of a limb is
\* in its column, the high part in the next
BigMulSmall(a, k) ==
  IF a = <<>> \/ k = 0 THEN <<>>
  ELSE
  Carried(SubSeq([i \in 1..(Len(a) + 1) |->
                    ((LimbAt(a, i) * k) % Base) + ((LimbAt(a, i - 1) * k) \div Base)],
                 1, Len(a) + 1))

\* a with n zero limbs below it: a * Base^n
ShiftLimbs(a, n) == IF a = <<>> THEN a ELSE SubSeq([i \in 1..n |-> 0], 1, n) \o a

RECURSIVE BigMul(_, _)
\* a * b, for a factor b of a few limbs
BigMul(a, b) ==
  IF a = <<>> \/ b = <<>> THEN <<>>
  ELSE BigAdd(BigMulSmall(a, b[1]), ShiftLimbs(BigMul(a, Tail(b)), 1))

\* the power of k = 2 or k = 5 that a factor holds
PowChunk(k) == IF k = 2 THEN 13 ELSE 5

RECURSIVE TimesPow(_, _, _)
\* a * k^n for k = 2 or k = 5
TimesPow(a, k, n) ==
  IF a = <<>> \/ n <= 0 THEN a
  ELSE IF n <= PowChunk(k) THEN BigMulSmall(a, k ^ n)
  ELSE TimesPow(TimesPow(a, k, n \div 2), k, n - (n \div 2))

\* the greatest c with c * b <= r, for r < Base * b and a divisor b of n
\* limbs whose last limb is half of Base or more: the quotient of the limbs
\* n + 1 and n of r by the last limb of b is c or up to two more
QuotientLimb(r, b, hi) ==
  IF ~BigLess(r, BigMulSmall(b, hi)) THEN hi
  ELSE IF ~BigLess(r, BigMulSmall(b, hi - 1)) THEN hi - 1
  ELSE hi - 2

\* the quotient of the last limbs, Base - 1 at most
QuotientTop(r, b) ==
  IF (LimbAt(r, Len(b) + 1) * Base + LimbAt(r, Len(b))) \div b[Len(b)] > Base - 1
  THEN Base - 1
  ELSE (LimbAt(r, Len(b) + 1) * Base + LimbAt(r, Len(b))) \div b[Len(b)]

\* a step of the long division by b: the remainder r with the next limb
\* below it holds b c times; c is the next limb of the quotient q, i limbs
\* are left
divTake(i, q, r, c, b) ==
  [i |-> i - 1, q |-> <<c>> \o q, r |-> BigSub(r, BigMulSmall(b, c))]
divWith(st, r, b) == divTake(st.i, st.q, r, QuotientLimb(r, b, QuotientTop(r, b)), b)
divStep(st, a, b) == divWith(st, Trim(<<a[st.i]>> \o st.r), b)

RECURSIVE DivFrom(_, _, _)
\* the long division of a by b from limb st.i of a down, with the quotient
\* st.q and the remainder st.r of the limbs above it
DivFrom(st, a, b) == IF st.i = 0 THEN st ELSE DivFrom(divStep(st, a, b), a, b)

\* the long division of a by b, a divisor whose last limb is half of Base
\* or more
divide(a, b) ==
  IF Len(a) < Len(b) THEN [i |-> 0, q |-> <<>>, r |-> a]
  ELSE DivFrom([i |-> Len(a) - Len(b) + 1, q |-> <<>>,
                r |-> SubSeq(a, Len(a) - Len(b) + 2, Len(a))], a, b)

\* the divisor d with the quotient and the remainder of st
quotientOf(st, d) == [q |-> Trim(st.q), r |-> st.r, d |-> d]

\* the factor that brings the last limb of b to half of Base or more
DivFactor(b) == Base \div (b[Len(b)] + 1)

\* a divided by b > 0: the quotient q, and the remainder r and the divisor
\* d multiplied by the same factor (a * f = q * d + r, d = b * f, r < d)
divScaled(a, b) == quotientOf(divide(a, b), b)
BigDivMod(a, b) ==
  IF BigLess(a, b) THEN [q |-> <<>>, r |-> a, d |-> b]
  ELSE divScaled(BigMulSmall(a, DivFactor(b)), BigMulSmall(b, DivFactor(b)))

\* a is an odd number
IsOdd(a) == a # <<>> /\ a[1] % 2 = 1

\* an exponent e with 2^e <= A / B: a decimal digit is worth more than
\* 3.3219 binary digits
ShiftBelow(A, B) == (((BigDigits(A) - BigDigits(B) - 1) * 33219) \div 10000) - 1

\* the times B is to be doubled for A < B, for terms with A < 2^12 * B
Doublings(A, B) ==
  CHOOSE j \in 0..12 :
    /\ BigLess(A, BigMulSmall(B, 2 ^ j))
    /\ j = 0 \/ ~BigLess(A, BigMulSmall(B, 2 ^ (j - 1)))

\* the terms with A < B, B being doubled j times and e raised by j
scaleBy(A, B, e, j) == [A |-> A, B |-> BigMulSmall(B, 2 ^ j), e |-> e + j]

doubled(A, B, e) == scaleBy(A, B, e, Doublings(A, B))

\* A and B brought to the exponent e, and B doubled until A < B
scaleFrom(A, B, e) ==
  doubled(IF e < 0 THEN TimesPow(A, 2, 0 - e) ELSE A,
          IF e > 0 THEN TimesPow(B, 2, e) ELSE B, e)

\* the terms with B / 2 <= A < B and the exponent e they have been brought
\* to, or A < B at the least exponent emin: A / B is x / 2^(e + bits) for
\* the ratio x = n / d, from A = n and B = d * 2^bits
Scale(n, dP, emin) ==
  scaleFrom(n, dP, IF ShiftBelow(n, dP) < emin THEN emin ELSE ShiftBelow(n, dP))

\* qr.q with the remainder qr.r of a division by qr.d is rounded up: to the
\* nearest integer, to the even one of two that are equally near
RoundsUp(qr, r2) == BigLess(qr.d, r2) \/ (r2 = qr.d /\ IsOdd(qr.q))

roundQuotient(qr, e) ==
  [m |-> IF RoundsUp(qr, BigMulSmall(qr.r, 2)) THEN BigAdd(qr.q, <<1>>) ELSE qr.q, e |-> e]

roundScaled(s, bits) ==
  IF s.A = <<>> THEN [m |-> <<>>, e |-> s.e]
  ELSE roundQuotient(BigDivMod(TimesPow(s.A, 2, bits), s.B), s.e)

\* the number r with a mantissa below 2^bits: a mantissa that the rounding
\* has brought to 2^bits is halved and the exponent raised
normalized(r, bits) ==
  IF r.m = TimesPow(<<1>>, 2, bits) THEN [m |-> TimesPow(<<1>>, 2, bits - 1), e |-> r.e + 1]
  ELSE r

\* the binary floating-point number m * 2^e nearest to n / d > 0 (the one
\* with an even m of two that are equally near), with a mantissa m of at
\* most the given number of bits and an exponent e >= emin
RoundRatio(n, d, bits, emin) ==
  IF n = <<>> THEN [m |-> <<>>, e |-> emin]
  ELSE normalized(roundScaled(Scale(n, TimesPow(d, 2, bits), emin), bits), bits)

\* m * 2^e as a ratio of natural numbers
BinaryNum(r) == IF r.e >= 0 THEN TimesPow(r.m, 2, r.e) ELSE r.m
BinaryDen(r) == IF r.e >= 0 THEN <<1>> ELSE TimesPow(<<1>>, 2, 0 - r.e)

-----------------------------------------------------------------------------
(* Floating-point conversion (strconv.ParseFloat).  A finite float is      *)
(* described by its exact value in decimal: its sign, its significant      *)
(* digits d1 d2 ... (no trailing zeros, none at all for zero) and the      *)
(* exponent e of d1.d2... * 10^e                                           *)

RECURSIVE DecToNat(_, _)
\* the number written by the digits s, acc being the number read so far;
\* as in readFloat the exponent stops growing at 10000
DecToNat(s, acc) ==
  IF s = <<>> THEN acc
  ELSE DecToNat(Tail(s), IF acc < 10000 THEN acc * 10 + DigitVal(s[1]) ELSE acc)

\* the first five of the digits s
firstFive(s) == SubSeq(s, 1, IF Len(s) > 5 THEN 5 ELSE Len(s))

\* the exponent written by the digits s: leading zeros add nothing, and
\* the fifth digit after them brings the number to 10000 or more, where it
\* stops growing
ExponentOf(s) == DecToNat(firstFive(DropLeadingZeros(s)), 0)

\* a float value
FloatVal(class, neg, digits, exp) ==
  [class |-> class, neg |-> neg, digits |-> digits, exp |-> exp]

ZeroFloat == FloatVal("finite", FALSE, <<>>, 0)

\* what ParseFloat returns with a syntax error, and with a range error: the
\* infinity of the sign
FloatSyntaxError == [val |-> ZeroFloat, err |-> "syntax"]
FloatRangeError(neg) == [val |-> FloatVal("inf", neg, <<>>, 0), err |-> "range"]

\* the formats float32 and float64: the bits of a mantissa, the least
\* exponent of its last bit, and the exponent of the last bit of the
\* greatest finite number
MantBits(bitSize) == IF bitSize = 32 THEN 24 ELSE 53
LeastExp(bitSize) == IF bitSize = 32 THEN -149 ELSE -1074
GreatestExp(bitSize) == IF bitSize = 32 THEN 104 ELSE 971

\* a decimal d1.d2... * 10^e with e >= OverflowExp is beyond the greatest
\* finite number, and one with e < UnderflowExp is less than half the least
\* number above zero
OverflowExp(bitSize) == IF bitSize = 32 THEN 39 ELSE 309
UnderflowExp(bitSize) == IF bitSize = 32 THEN -46 ELSE -324

\* an integer of at most ExactDigits decimal digits is a float of the
\* format (atof32exact, atof64exact)
ExactDigits(bitSize) == IF bitSize = 32 THEN 7 ELSE 15

\* the decimal d1.d2... * 10^exp as a ratio of natural numbers
DecimalNum(digits, exp) == DecToBig(digits \o Zeros(exp - Len(digits) + 1))
DecimalDen(digits, exp) == TenPow(Len(digits) - 1 - exp)

\* the number m * 2^e for e >= 0, and m * 5^-e = m * 2^e * 10^-e for e < 0
binaryLimbs(r) == IF r.e >= 0 THEN TimesPow(r.m, 2, r.e) ELSE TimesPow(r.m, 5, 0 - r.e)

\* the float of the decimal digits N with the decimal point e places
\* before their end
exactFloat(neg, N, e) == FloatVal("finite", neg, DropTrailingZeros(N), Len(N) - 1 - e)

\* the float m * 2^e with its exact value in decimal
ExactFloat(neg, r) ==
  IF r.m = <<>> THEN FloatVal("finite", neg, <<>>, 0)
  ELSE exactFloat(neg, BigToDec(binaryLimbs(r)), IF r.e < 0 THEN 0 - r.e ELSE 0)

\* the float that the rounded number r is: infinity beyond the greatest
\* finite number
floatOfRounded(neg, r, bitSize) ==
  IF r.e > GreatestExp(bitSize) THEN FloatVal("inf", neg, <<>>, 0) ELSE ExactFloat(neg, r)

\* the float of the format nearest to n / d > 0
RoundToFloat(neg, n, d, bitSize) ==
  floatOfRounded(neg, RoundRatio(n, d, MantBits(bitSize), LeastExp(bitSize)), bitSize)

\* the float of the format nearest to the decimal d1.d2... * 10^exp
DecimalToFloat(neg, digits, exp, bitSize) ==
  IF digits = <<>> THEN FloatVal("finite", neg, <<>>, 0)
  ELSE IF exp >= OverflowExp(bitSize) THEN FloatVal("inf", neg, <<>>, 0)
  ELSE IF exp < UnderflowExp(bitSize) THEN FloatVal("finite", neg, <<>>, 0)
  ELSE IF Len(digits) <= exp + 1 /\ exp < ExactDigits(bitSize)
  THEN FloatVal("finite", neg, digits, exp)
  ELSE RoundToFloat(neg, DecimalNum(digits, exp), DecimalDen(digits, exp), bitSize)

\* the float of the format nearest to N * 2^b for N > 0, which is between
\* 2^b and 2^(b + 14 * Len(N))
BinaryToFloat(neg, N, b, bitSize) ==
  IF b > GreatestExp(bitSize) + MantBits(bitSize) THEN FloatVal("inf", neg, <<>>, 0)
  ELSE IF b + 14 * Len(N) < LeastExp(bitSize) THEN FloatVal("finite", neg, <<>>, 0)
  ELSE RoundToFloat(neg, IF b > 0 THEN TimesPow(N, 2, b) ELSE N,
                    IF b < 0 THEN TimesPow(<<1>>, 2, 0 - b) ELSE <<1>>, bitSize)

\* the outcome of ParseFloat for the float v that a spelling rounds to
floatResult(v) ==
  IF v.class = "inf" THEN FloatRangeError(v.neg) ELSE [val |-> v, err |-> "none"]

\* least index >= i of s whose byte is not a digit, or Len(s) + 1
DigitsEnd(s, i) ==
  CHOOSE k \in i..(Len(s) + 1) :
    /\ k = Len(s) + 1 \/ s[k] \notin Digit
    /\ \A j \in i..(k - 1) : s[j] \in Digit

\* the hexadecimal digits and their values
HexSeq == <<"0", "1", "2", "3", "4", "5", "6", "7", "8", "9", "a", "b", "c", "d", "e", "f">>
HexUpperSeq == <<"0", "1", "2", "3", "4", "5", "6", "7", "8", "9", "A", "B", "C", "D", "E", "F">>
HexDigit == { HexSeq[i] : i \in 1..16 } \cup { HexUpperSeq[i] : i \in 1..16 }
HexVal(ch) == (CHOOSE i \in 1..16 : HexSeq[i] = ch \/ HexUpperSeq[i] = ch) - 1

\* least index >= i of s whose byte is not a hexadecimal digit, or
\* Len(s) + 1
HexDigitsEnd(s, i) ==
  CHOOSE k \in i..(Len(s) + 1) :
    /\ k = Len(s) + 1 \/ s[k] \notin HexDigit
    /\ \A j \in i..(k - 1) : s[j] \in HexDigit

\* digit p of the hexadecimal digits s, counted from the last, zero beyond
\* the first
HexFromEnd(s, p) == IF p <= Len(s) THEN HexVal(s[Len(s) - p + 1]) ELSE 0

RECURSIVE HexToBig(_)
\* the number written by the hexadecimal digits s
HexToBig(s) ==
  IF Len(s) <= 3
  THEN Trim(<<HexFromEnd(s, 1) + 16 * HexFromEnd(s, 2) + 256 * HexFromEnd(s, 3)>>)
  ELSE BigAdd(TimesPow(HexToBig(SubSeq(s, 1, Len(s) \div 2)), 2,
                       4 * (Len(s) - (Len(s) \div 2))),
              HexToBig(SubSeq(s, (Len(s) \div 2) + 1, Len(s))))

\* s in lower case is the word w
IsWord(s, w) ==
  /\ Len(s) = Len(w)
  /\ \A i \in 1..Len(s) : s[i] \in {w[i], UpperSeq[CHOOSE k \in 1..26 : LowerSeq[k] = w[i]]}

\* strconv's underscoreOK(s): every underscore of s stands between two
\* digits, or between a base prefix (0b, 0o, 0x) and a digit; the letters a
\* to f are digits after the prefix 0x
underscoreOK(s) ==
  LET t == IF s # <<>> /\ s[1] \in {"+", "-"} THEN Tail(s) ELSE s
      based == Len(t) >= 2 /\ t[1] = "0" /\ t[2] \in {"b", "B", "o", "O", "x", "X"}
      hex == based /\ t[2] \in {"x", "X"}
      first == IF based THEN 3 ELSE 1
      digit(c) == c \in Digit \/ (hex /\ c \in HexDigit)
  IN  \A i \in first..Len(t) :
        t[i] = "_" =>
          /\ IF i = first THEN based ELSE digit(t[i - 1])
          /\ i < Len(t)
          /\ digit(t[i + 1])

\* s without its underscores
WithoutUnderscores(s) == SelectSeq(s, LAMBDA c : c # "_")

\* readFloat and atof on a decimal mantissa with an optional exponent: u is
\* the text after the sign, its underscores left out
ParseDecimalFloat(neg, u, bitSize) ==
  LET ie == DigitsEnd(u, 1)
      int == SubSeq(u, 1, ie - 1)
      dot == ie <= Len(u) /\ u[ie] = "."
      fs == IF dot THEN ie + 1 ELSE ie
      fe == DigitsEnd(u, fs)
      frac == SubSeq(u, fs, fe - 1)
      hasExp == fe <= Len(u) /\ u[fe] \in {"e", "E"}
      esigned == hasExp /\ fe + 1 <= Len(u) /\ u[fe + 1] \in {"+", "-"}
      eneg == esigned /\ u[fe + 1] = "-"
      es == IF esigned THEN fe + 2 ELSE fe + 1
      ee == IF hasExp THEN DigitsEnd(u, es) ELSE fe
      edigits == IF hasExp THEN SubSeq(u, es, ee - 1) ELSE <<>>
      e == IF eneg THEN 0 - ExponentOf(edigits) ELSE ExponentOf(edigits)
      all == int \o frac
      sig == DropLeadingZeros(all)
      digits == DropTrailingZeros(sig)
      exp == Len(int) - 1 - (Len(all) - Len(sig)) + e
  IN  IF all = <<>> \/ (hasExp /\ edigits = <<>>) \/ ee # Len(u) + 1
      THEN FloatSyntaxError
      ELSE floatResult(DecimalToFloat(neg, digits, exp, bitSize))

\* the float of the number N with the binary exponent b
hexFloatOf(neg, N, b, bitSize) ==
  IF N = <<>> THEN FloatVal("finite", neg, <<>>, 0)
  ELSE BinaryToFloat(neg, N, b, bitSize)

\* readFloat and atofHex on a hexadecimal mantissa with its binary
\* exponent: m is the text after the sign and the prefix 0x, its
\* underscores left out
ParseHexFloat(neg, m, bitSize) ==
  LET ie == HexDigitsEnd(m, 1)
      int == SubSeq(m, 1, ie - 1)
      dot == ie <= Len(m) /\ m[ie] = "."
      fs == IF dot THEN ie + 1 ELSE ie
      fe == HexDigitsEnd(m, fs)
      frac == SubSeq(m, fs, fe - 1)
      hasExp == fe <= Len(m) /\ m[fe] \in {"p", "P"}
      esigned == hasExp /\ fe + 1 <= Len(m) /\ m[fe + 1] \in {"+", "-"}
      eneg == esigned /\ m[fe + 1] = "-"
      es == IF esigned THEN fe + 2 ELSE fe + 1
      ee == IF hasExp THEN DigitsEnd(m, es) ELSE fe
      edigits == IF hasExp THEN SubSeq(m, es, ee - 1) ELSE <<>>
      e == IF eneg THEN 0 - ExponentOf(edigits) ELSE ExponentOf(edigits)
      all == int \o frac
  IN  IF all = <<>> \/ ~hasExp \/ edigits = <<>> \/ ee # Len(m) + 1
      THEN FloatSyntaxError
      ELSE floatResult(hexFloatOf(neg, HexToBig(DropLeadingZeros(all)),
                                  e - 4 * Len(frac), bitSize))

\* strconv.ParseFloat(s, bitSize): the words inf, infinity and nan, decimal
\* and hexadecimal spellings, with underscores between digits
ParseFloat(s, bitSize) ==
  IF s = <<>> THEN FloatSyntaxError
  ELSE
    LET signed == s[1] \in {"+", "-"}
        neg == s[1] = "-"
        body == IF signed THEN Tail(s) ELSE s
        hex == Len(body) > 2 /\ body[1] = "0" /\ body[2] \in {"x", "X"}
    IN  IF IsWord(body, <<"i", "n", "f">>)
             \/ IsWord(body, <<"i", "n", "f", "i", "n", "i", "t", "y">>)
        THEN [val |-> FloatVal("inf", neg, <<>>, 0), err |-> "none"]
        ELSE IF ~signed /\ IsWord(body, <<"n", "a", "n">>)
        THEN [val |-> FloatVal("nan", FALSE, <<>>, 0), err |-> "none"]
        ELSE IF ~underscoreOK(s) THEN FloatSyntaxError
        ELSE IF hex
        THEN ParseHexFloat(neg, WithoutUnderscores(SubSeq(body, 3, Len(body))), bitSize)
        ELSE ParseDecimalFloat(neg, WithoutUnderscores(body), bitSize)

\* the end of an accessor: the variable is set or not, p is the outcome
\* of the conversion of its text, zero the zero value of the type
valueOrDefault(exists, p, defaultValue, zero) ==
  IF ~exists \/ p.err # "none"
  THEN (IF Len(defaultValue) > 0 THEN defaultValue[1] ELSE zero)
  ELSE p.val

\* EnvFloat32(key, defaultValue...)
EnvFloat32(e, key, defaultValue) ==
  valueOrDefault(LookupEnv(e, key).exists, ParseFloat(LookupEnv(e, key).value, 32),
                 defaultValue, ZeroFloat)

\* EnvFloat64(key, defaultValue...)
EnvFloat64(e, key, defaultValue) ==
  valueOrDefault(LookupEnv(e, key).exists, ParseFloat(LookupEnv(e, key).value, 64),
                 defaultValue, ZeroFloat)

-----------------------------------------------------------------------------
(* Durations (time.ParseDuration): a count of nanoseconds in an int64, kept *)
(* as a sign and decimal digits.  Arithmetic on decimal digits             *)

\* a * k for a small factor k
DecMul(a, k) == BigToDec(BigMul(DecToBig(a), DecToBig(NatToDec(k))))

\* a + b
DecAdd(a, b) == BigToDec(BigAdd(DecToBig(a), DecToBig(b)))

\* n as a uint64 for n < 2^65: what is left of a sum of two uint64 values
Uint64Of(n) ==
  IF DecLess(n, Pow2Dec(64)) THEN n
  ELSE BigToDec(BigSub(DecToBig(n), DecToBig(Pow2Dec(64))))

\* the micro sign U+00B5 and the Greek letter mu U+03BC, each one element
\* of a text (two bytes in the UTF-8 text of the program)
MicroSign == "µ"
GreekMu == "μ"

\* the units of unitMap as a small factor and a power of ten:
\* nanoseconds per unit = factor * 10^zeros
UnitNames ==
  {<<"n", "s">>, <<"u", "s">>, <<MicroSign, "s">>, <<GreekMu, "s">>,
   <<"m", "s">>, <<"s">>, <<"m">>, <<"h">>}
UnitFactor(u) == IF u = <<"m">> THEN 6 ELSE IF u = <<"h">> THEN 36 ELSE 1
UnitZeros(u) ==
  CASE u = <<"n", "s">> -> 0
    [] u \in {<<"u", "s">>, <<MicroSign, "s">>, <<GreekMu, "s">>} -> 3
    [] u = <<"m", "s">> -> 6
    [] u = <<"s">> -> 9
    [] u = <<"m">> -> 10
    [] u = <<"h">> -> 11

\* v * unit
TimesUnit(v, u) == StripZeros(DecMul(v, UnitFactor(u)) \o Zeros(UnitZeros(u)))

\* the number written by the first j digits of f
fractionValue(f, j) == IF j = 0 THEN <<"0">> ELSE StripZeros(SubSeq(f, 1, j))

\* (1<<63 - 1) / 10
FractionCutoff == <<"9", "2", "2", "3", "3", "7", "2", "0", "3", "6", "8", "5", "4", "7", "7", "5", "8", "0">>

\* leadingFraction takes the digit j of f into x when x is at most
\* (2^63 - 1) / 10 before it and at most 2^63 with it
fractionFits(f, j) ==
  /\ ~DecLess(FractionCutoff, fractionValue(f, j - 1))
  /\ ~DecLess(Pow2Dec(63), fractionValue(f, j))

\* the number of digits of f that leadingFraction takes into x: those
\* before the first that does not fit, the digits after it being skipped
FractionDigits(f) ==
  CHOOSE j \in 0..Len(f) :
    /\ \A i \in 1..j : fractionFits(f, i)
    /\ j = Len(f) \/ ~fractionFits(f, j + 1)

\* the float64 nearest to n / d > 0, as m * 2^e
Float64Of(n, d) == RoundRatio(n, d, 53, -1074)

\* the float64 st.m * 2^st.e multiplied by 10
scaleTimesTen(st, p) == [m |-> p.m, e |-> p.e, k |-> st.k - 1]

RECURSIVE ScaleFrom(_)
\* the scale st.m * 2^st.e multiplied st.k times by 10, rounded to a
\* float64 each time
ScaleFrom(st) ==
  IF st.k = 0 THEN st
  ELSE ScaleFrom(scaleTimesTen(st, Float64Of(BigMulSmall(BinaryNum(st), 10), <<1>>)))

\* the float64 scale of leadingFraction after k digits: 1 multiplied k
\* times by 10 and rounded each time, which is 10^k itself up to 10^22
FractionScale(k) ==
  IF k <= 22 THEN TenPow(k)
  ELSE BinaryNum(ScaleFrom([m |-> TenPow(22), e |-> 0, k |-> k - 22]))

\* the product of the float64 numbers x and y, rounded to a float64
floatProduct(x, y) ==
  Float64Of(TimesPow(BigMul(x.m, y.m), 2, x.e + y.e), TimesPow(<<1>>, 2, 0 - (x.e + y.e)))

\* the float64 p cut to an integer
floatFloor(p) ==
  IF p.e >= 0 THEN BinaryNum(p) ELSE BigDivMod(p.m, BinaryDen(p)).q

\* the product of the float64 numbers x and y, cut to an integer
productFloor(x, y) ==
  IF x.m = <<>> \/ y.m = <<>> THEN <<>> ELSE floatFloor(floatProduct(x, y))

\* float64(f) * (float64(unit) / scale) in float64 arithmetic, cut to an
\* integer: x is the fraction read as an integer, each operation rounds
scaledFraction(x, unit, scale) ==
  productFloor(Float64Of(x, <<1>>), Float64Of(unit, scale))

\* the nanoseconds of the first k digits of the fraction 0.f of a unit
fractionOf(f, u, k) ==
  IF fractionValue(f, k) = <<"0">> \/ k > 40 THEN <<"0">>
  ELSE BigToDec(scaledFraction(DecToBig(fractionValue(f, k)),
                               DecToBig(TimesUnit(<<"1">>, u)), FractionScale(k)))

\* the nanoseconds of the fraction 0.f of a unit:
\* uint64(float64(f) * (float64(unit) / scale)); beyond 40 digits the
\* product is below one
FractionOf(f, u) == fractionOf(f, u, FractionDigits(f))

\* least index >= i of s whose byte is a digit or a dot, or Len(s) + 1
UnitEnd(s, i) ==
  CHOOSE k \in i..(Len(s) + 1) :
    /\ k = Len(s) + 1 \/ s[k] \in Digit \cup {"."}
    /\ \A j \in i..(k - 1) : s[j] \notin Digit \cup {"."}

DurationError == [ok |-> FALSE, d |-> <<"0">>]

RECURSIVE DurationSum(_, _)
\* the end of one turn of the loop: the segment w has been read, sum is d
\* with it (d += v on uint64 values, which wraps at 2^64), and rest is
\* what follows the segment
durationAdded(rest, w, sum, limit) ==
  IF DecLess(limit, w) \/ DecLess(limit, sum) THEN DurationError
  ELSE DurationSum(rest, sum)
durationAdd(rest, d, w, limit) ==
  durationAdded(rest, w, Uint64Of(DecAdd(d, w)), limit)

\* the loop of ParseDuration over the segments number-unit of s, d being
\* the nanoseconds summed so far
DurationSum(s, d) ==
  IF s = <<>> THEN [ok |-> TRUE, d |-> d]
  ELSE IF s[1] \notin Digit \cup {"."} THEN DurationError
  ELSE
    LET ie == DigitsEnd(s, 1)
        int == SubSeq(s, 1, ie - 1)
        dot == ie <= Len(s) /\ s[ie] = "."
        fs == IF dot THEN ie + 1 ELSE ie
        fe == IF dot THEN DigitsEnd(s, fs) ELSE ie
        f == SubSeq(s, fs, fe - 1)
        ue == UnitEnd(s, fe)
        u == SubSeq(s, fe, ue - 1)
        v == IF int = <<>> THEN <<"0">> ELSE StripZeros(int)
        limit == Pow2Dec(63)
    IN  IF int = <<>> /\ f = <<>> THEN DurationError
        ELSE IF u \notin UnitNames THEN DurationError
        ELSE IF DecLess(limit, v) \/ DecLess(limit, TimesUnit(v, u)) THEN DurationError
        ELSE durationAdd(SubSeq(s, ue, Len(s)), d,
                         DecAdd(TimesUnit(v, u), FractionOf(f, u)), limit)

\* the end of ParseDuration: r is the outcome of its loop
durationOf(neg, r) ==
  IF ~r.ok THEN SyntaxError
  ELSE IF ~neg /\ ~DecLess(r.d, Pow2Dec(63)) THEN RangeError
  ELSE Converted(IntVal(neg /\ r.d # <<"0">>, r.d))

\* time.ParseDuration(s)
ParseDuration(s) ==
  LET signed == s # <<>> /\ s[1] \in {"+", "-"}
      neg == signed /\ s[1] = "-"
      body == IF signed THEN Tail(s) ELSE s
  IN  IF body = <<"0">> THEN Converted(ZeroInt)
      ELSE IF body = <<>> THEN SyntaxError
      ELSE durationOf(neg, DurationSum(body, <<"0">>))

\* EnvDuration(key, defaultValue...)
EnvDuration(e, key, defaultValue) ==
  valueOrDefault(LookupEnv(e, key).exists, ParseDuration(LookupEnv(e, key).value),
                 defaultValue, ZeroInt)

-----------------------------------------------------------------------------
(* Calls of the numeric and duration accessors *)

IntDefaults == {IntVal(FALSE, <<"7">>)}
FloatDefaults == {FloatVal("finite", FALSE, <<"2", "5">>, 0)}

\* a call of EnvInt
CallEnvInt ==
  /\ pc = "call"
  /\ \E key \in TypedKeys, d \in DefaultsOf(IntDefaults) :
       out' = Called("EnvInt", key, d, EnvInt(osenv, key, d))
  /\ pc' = "returned"
  /\ UNCHANGED <<content, pos, line, col, env, result, ret, input, file,
                 osenv, source, pending, target>>

\* a call of EnvInt8
CallEnvInt8 ==
  /\ pc = "call"
  /\ \E key \in TypedKeys, d \in DefaultsOf(IntDefaults) :
       out' = Called("EnvInt8", key, d, EnvInt8(osenv, key, d))
  /\ pc' = "returned"
  /\ UNCHANGED <<content, pos, line, col, env, result, ret, input, file,
                 osenv, source, pending, target>>

\* a call of EnvInt16
CallEnvInt16 ==
  /\ pc = "call"
  /\ \E key \in TypedKeys, d \in DefaultsOf(IntDefaults) :
       out' = Called("EnvInt16", key, d, EnvInt16(osenv, key, d))
  /\ pc' = "returned"
  /\ UNCHANGED <<content, pos, line, col, env, result, ret, input, file,
                 osenv, source, pending, target>>

\* a call of EnvInt32
CallEnvInt32 ==
  /\ pc = "call"
  /\ \E key \in TypedKeys, d \in DefaultsOf(IntDefaults) :
       out' = Called("EnvInt32", key, d, EnvInt32(osenv, key, d))
  /\ pc' = "returned"
  /\ UNCHANGED <<content, pos, line, col, env, result, ret, input, file,
                 osenv, source, pending, target>>

\* a call of EnvInt64
CallEnvInt64 ==
  /\ pc = "call"
  /\ \E key \in TypedKeys, d \in DefaultsOf(IntDefaults) :
       out' = Called("EnvInt64", key, d, EnvInt64(osenv, key, d))
  /\ pc' = "returned"
  /\ UNCHANGED <<content, pos, line, col, env, result, ret, input, file,
                 osenv, source, pending, target>>

\* a call of EnvUint
CallEnvUint ==
  /\ pc = "call"
  /\ \E key \in TypedKeys, d \in DefaultsOf(IntDefaults) :
       out' = Called("EnvUint", key, d, EnvUint(osenv, key, d))
  /\ pc' = "returned"
  /\ UNCHANGED <<content, pos, line, col, env, result, ret, input, file,
                 osenv, source, pending, target>>

\* a call of EnvUint8
CallEnvUint8 ==
  /\ pc = "call"
  /\ \E key \in TypedKeys, d \in DefaultsOf(IntDefaults) :
       out' = Called("EnvUint8", key, d, EnvUint8(osenv, key, d))
  /\ pc' = "returned"
  /\ UNCHANGED <<content, pos, line, col, env, result, ret, input, file,
                 osenv, source, pending, target>>

\* a call of EnvUint16
CallEnvUint16 ==
  /\ pc = "call"
  /\ \E key \in TypedKeys, d \in DefaultsOf(IntDefaults) :
       out' = Called("EnvUint16", key, d, EnvUint16(osenv, key, d))
  /\ pc' = "returned"
  /\ UNCHANGED <<content, pos, line, col, env, result, ret, input, file,
                 osenv, source, pending, target>>

\* a call of EnvUint32
CallEnvUint32 ==
  /\ pc = "call"
  /\ \E key \in TypedKeys, d \in DefaultsOf(IntDefaults) :
       out' = Called("EnvUint32", key, d, EnvUint32(osenv, key, d))
  /\ pc' = "returned"
  /\ UNCHANGED <<content, pos, line, col, env, result, ret, input, file,
                 osenv, source, pending, target>>

\* a call of EnvUint64
CallEnvUint64 ==
  /\ pc = "call"
  /\ \E key \in TypedKeys, d \in DefaultsOf(IntDefaults) :
       out' = Called("EnvUint64", key, d, EnvUint64(osenv, key, d))
  /\ pc' = "returned"
  /\ UNCHANGED <<content, pos, line, col, env, result, ret, input, file,
                 osenv, source, pending, target>>

\* a call of EnvFloat32
CallEnvFloat32 ==
  /\ pc = "call"
  /\ \E key \in TypedKeys, d \in DefaultsOf(FloatDefaults) :
       out' = Called("EnvFloat32", key, d, EnvFloat32(osenv, key, d))
  /\ pc' = "returned"
  /\ UNCHANGED <<content, pos, line, col, env, result, ret, input, file,
                 osenv, source, pending, target>>

\* a call of EnvFloat64
CallEnvFloat64 ==
  /\ pc = "call"
  /\ \E key \in TypedKeys, d \in DefaultsOf(FloatDefaults) :
       out' = Called("EnvFloat64", key, d, EnvFloat64(osenv, key, d))
  /\ pc' = "returned"
  /\ UNCHANGED <<content, pos, line, col, env, result, ret, input, file,
                 osenv, source, pending, target>>

\* a call of EnvDuration
CallEnvDuration ==
  /\ pc = "call"
  /\ \E key \in TypedKeys, d \in DefaultsOf(IntDefaults) :
       out' = Called("EnvDuration", key, d, EnvDuration(osenv, key, d))
  /\ pc' = "returned"
  /\ UNCHANGED <<content, pos, line, col, env, result, ret, input, file,
                 osenv, source, pending, target>>

-----------------------------------------------------------------------------
(* SpecTyped: every typed accessor over short texts and the texts at the   *)
(* limits of the types                                                      *)

MaxTextLen == 3

RECURSIVE TextsUpTo(_, _)
\* the texts of at most n bytes of A
TextsUpTo(A, n) ==
  IF n = 0 THEN {<<>>}
  ELSE LET S == TextsUpTo(A, n - 1)
       IN  S \cup { Append(s, a) : s \in S, a \in A }

TypedAlphabet == {"0", "1", "9", "-", ".", "s"}

BoundaryTexts ==
  { <<"9", "2", "2", "3", "3", "7", "2", "0", "3", "6", "8", "5", "4", "7", "7", "5", "8", "0", "8", "n", "s", "9", "2", "2", "3", "3", "7", "2", "0", "3", "6", "8", "5", "4", "7", "7", "5", "8", "0", "8", "n", "s">>,
    <<"9", "2", "2", "3", "3", "7", "2", "0", "3", "6", "8", "5", "4", "7", "7", "5", "8", "0", "8", "n", "s", "9", "2", "2", "3", "3", "7", "2", "0", "3", "6", "8", "5", "4", "7", "7", "5", "8", "0", "8", "n", "s", "1", "s">>,
    <<"-", "9", "2", "2", "3", "3", "7", "2", "0", "3", "6", "8", "5", "4", "7", "7", "5", "8", "0", "8", "n", "s", "9", "2", "2", "3", "3", "7", "2", "0", "3", "6", "8", "5", "4", "7", "7", "5", "8", "0", "8", "n", "s">>,
    <<"+", "0">>,
    <<"+", "1">>,
    <<"-", "0">>,
    <<"0", "0", "7">>,
    <<"-", "0", "0", "7">>,
    <<"1", ".", "5">>,
    <<"1", "e", "3">>,
    <<"0", "x", "1", "0">>,
    <<"1", "_", "0">>,
    <<SP, "1">>,
    <<"1", SP>>,
    <<"-", "-", "1">>,
    <<"1", "2", "7">>,
    <<"1", "2", "8">>,
    <<"-", "1", "2", "8">>,
    <<"-", "1", "2", "9">>,
    <<"2", "5", "5">>,
    <<"2", "5", "6">>,
    <<"3", "2", "7", "6", "7">>,
    <<"3", "2", "7", "6", "8">>,
    <<"-", "3", "2", "7", "6", "8">>,
    <<"-", "3", "2", "7", "6", "9">>,
    <<"6", "5", "5", "3", "5">>,
    <<"6", "5", "5", "3", "6">>,
    <<"2", "1", "4", "7", "4", "8", "3", "6", "4", "7">>,
    <<"2", "1", "4", "7", "4", "8", "3", "6", "4", "8">>,
    <<"-", "2", "1", "4", "7", "4", "8", "3", "6", "4", "8">>,
    <<"-", "2", "1", "4", "7", "4", "8", "3", "6", "4", "9">>,
    <<"4", "2", "9", "4", "9", "6", "7", "2", "9", "5">>,
    <<"4", "2", "9", "4", "9", "6", "7", "2", "9", "6">>,
    <<"9", "2", "2", "3", "3", "7", "2", "0", "3", "6", "8", "5", "4", "7", "7", "5", "8", "0", "7">>,
    <<"9", "2", "2", "3", "3", "7", "2", "0", "3", "6", "8", "5", "4", "7", "7", "5", "8", "0", "8">>,
    <<"-", "9", "2", "2", "3", "3", "7", "2", "0", "3", "6", "8", "5", "4", "7", "7", "5", "8", "0", "8">>,
    <<"-", "9", "2", "2", "3", "3", "7", "2", "0", "3", "6", "8", "5", "4", "7", "7", "5", "8", "0", "9">>,
    <<"1", "8", "4", "4", "6", "7", "4", "4", "0", "7", "3", "7", "0", "9", "5", "5", "1", "6", "1", "5">>,
    <<"1", "8", "4", "4", "6", "7", "4", "4", "0", "7", "3", "7", "0", "9", "5", "5", "1", "6", "1", "6">>,
    <<"1", ".", "5", "0">>,
    <<"0", "1", "5", "e", "-", "1">>,
    <<".", "5">>,
    <<"5", ".">>,
    <<"1", "e">>,
    <<"1", "E", "-", "5">>,
    <<"i", "n", "f">>,
    <<"-", "I", "n", "f">>,
    <<"N", "a", "N">>,
    <<"+", "n", "a", "n">>,
    <<"i", "n", "f", "i">>,
    <<"3", ".", "4", "0", "2", "8", "2", "3", "5", "e", "3", "8">>,
    <<"3", ".", "4", "0", "2", "8", "2", "3", "6", "e", "3", "8">>,
    <<"1", "e", "3", "8">>,
    <<"1", "e", "3", "9">>,
    <<"1", "e", "3", "0", "8">>,
    <<"1", "e", "3", "0", "9">>,
    <<"1", ".", "7", "9", "7", "6", "9", "3", "1", "3", "4", "8", "6", "2", "3", "1", "5", "7", "e", "3", "0", "8">>,
    <<"1", ".", "7", "9", "7", "6", "9", "3", "1", "3", "4", "8", "6", "2", "3", "1", "5", "9", "e", "3", "0", "8">>,
    <<"1", "e", "-", "4", "0", "0">>,
    <<"1", "_", "0", "0", "0", ".", "5">>,
    <<"1", "e", "1", "_", "0">>,
    <<"_", "1">>,
    <<"1", "_">>,
    <<"1", "_", "_", "0">>,
    <<"1", "_", ".", "5">>,
    <<"0", "x", "1", "p", "4">>,
    <<"0", "x", "1", "p", "-", "2">>,
    <<"0", "X", "1", "P", "4">>,
    <<"0", "x", "1", ".", "8", "p", "1">>,
    <<"0", "x", "_", "1", "p", "0">>,
    <<"0", "_", "x", "1", "p", "4">>,
    <<"0", "x", "1", "p">>,
    <<"0", "x", ".", "p", "1">>,
    <<"-", "0", "x", "1", "p", "-", "1">>,
    <<"0", ".", "1">>,
    <<"1", "6", "7", "7", "7", "2", "1", "7">>,
    <<"1", "e", "-", "4", "5">>,
    <<"1", "e", "-", "4", "6">>,
    <<"0", "x", "1", "p", "-", "1", "4", "9">>,
    <<"0", "x", "1", "p", "-", "1", "5", "0">>,
    <<"0", "x", "1", "p", "1", "2", "8">>,
    <<"0", "x", "1", "p", "1", "0", "2", "4">>,
    <<"3", "4", "0", "2", "8", "2", "3", "5", "6", "7", "7", "9", "7", "3", "3", "6", "6", "1", "6", "3", "7", "5", "3", "9", "3", "9", "5", "4", "5", "8", "1", "4", "2", "5", "6", "8", "4", "4", "7">>,
    <<"I", "n", "f", "i", "n", "i", "t", "y">>,
    <<"1", "s">>,
    <<"-", "1", "s">>,
    <<"+", "1", ".", "5", "h">>,
    <<"1", "h", "3", "0", "m">>,
    <<"1", "h", "3", "0", "m", "1", "5", ".", "5", "s">>,
    <<".", "5", "s">>,
    <<"1", "m", "s">>,
    <<"1", "u", "s">>,
    <<"1", "n", "s">>,
    <<"1", "0", "0", "m">>,
    <<"2", "5", "6", "2", "0", "4", "7", "h">>,
    <<"2", "5", "6", "2", "0", "4", "8", "h">>,
    <<"9", "2", "2", "3", "3", "7", "2", "0", "3", "6", "8", "5", "4", "7", "7", "5", "8", "0", "7", "n", "s">>,
    <<"9", "2", "2", "3", "3", "7", "2", "0", "3", "6", "8", "5", "4", "7", "7", "5", "8", "0", "8", "n", "s">>,
    <<"-", "9", "2", "2", "3", "3", "7", "2", "0", "3", "6", "8", "5", "4", "7", "7", "5", "8", "0", "8", "n", "s">>,
    <<"-", "9", "2", "2", "3", "3", "7", "2", "0", "3", "6", "8", "5", "4", "7", "7", "5", "8", "0", "9", "n", "s">>,
    <<"1", "d">>,
    <<"0", "s">>,
    <<"1", ".", "9", "9", "9", "9", "9", "9", "9", "9", "9", "s">>,
    <<"0", ".", "9", "9", "9", "9", "9", "9", "9", "9", "9", "9", "9", "9", "9", "9", "9", "9", "s">>,
    <<"1", ".", "9", "9", "9", "9", "9", "9", "9", "9", "9", "9", "9", "9", "9", "9", "9", "9", "s">>,
    <<"2", ".", "9", "9", "9", "9", "9", "9", "9", "9", "9", "9", "9", "9", "9", "9", "9", "9", "h">>,
    <<"0", ".", "9", "9", "9", "9", "9", "9", "9", "9", "9", "9", "9", "9", "9", "9", "9", "9", "n", "s">>,
    <<"0", ".", "5", "n", "s">>,
    <<"1", ".", "5", "u", "s">>,
    <<"0", ".", "9", "9", "9", "9", "9", "9", "9", "9", "9", "9", "9", "9", "9", "9", "9", "9", "9", "9", "9", "9", "9", "9", "9", "s">>,
    <<"2", "5", "6", "2", "0", "4", "7", ".", "9", "9", "9", "9", "9", "9", "9", "9", "9", "9", "9", "9", "9", "9", "9", "9", "h">>,
    <<"0", ".", "3", "s">>,
    <<"t", "r", "u", "e">>,
    <<"T", "R", "U", "E">>,
    <<"T", "r", "u", "e">>,
    <<"f", "a", "l", "s", "e">>,
    <<"F", "A", "L", "S", "E">>,
    <<"F", "a", "l", "s", "e">>,
    <<"t">>,
    <<"F">>,
    <<"m", "a", "y", "b", "e">> }

TypedTexts == TextsUpTo(TypedAlphabet, MaxTextLen) \cup BoundaryTexts

InitTyped ==
  /\ NoParser
  /\ NoMarshal
  /\ osenv \in {EmptyEnv} \cup { (<<"K">> :> s) : s \in TypedTexts }
  /\ out = NoCall
  /\ target = <<>>

NextTyped ==
  \/ CallEnvInt
  \/ CallEnvInt8
  \/ CallEnvInt16
  \/ CallEnvInt32
  \/ CallEnvInt64
  \/ CallEnvUint
  \/ CallEnvUint8
  \/ CallEnvUint16
  \/ CallEnvUint32
  \/ CallEnvUint64
  \/ CallEnvFloat32
  \/ CallEnvFloat64
  \/ CallEnvDuration
  \/ CallEnvBool
  \/ CallSetEnv
  \/ CallUnsetEnv
  \/ CallHasEnv

SpecTyped == InitTyped /\ [][NextTyped]_vars

\* the accessors by the type they return
IntFns == {"EnvInt", "EnvInt8", "EnvInt16", "EnvInt32", "EnvInt64", "EnvUint", "EnvUint8", "EnvUint16", "EnvUint32", "EnvUint64"}
SignedFns == {"EnvInt", "EnvInt8", "EnvInt16", "EnvInt32", "EnvInt64"}
FloatFns == {"EnvFloat32", "EnvFloat64"}

\* the conversions of the limit texts that succeed, as accessor, text and
\* value; every other conversion of a limit text fails
IntRows ==
  { <<"EnvInt", <<"+", "0">>, IntVal(FALSE, <<"0">>)>>,
    <<"EnvInt8", <<"+", "0">>, IntVal(FALSE, <<"0">>)>>,
    <<"EnvInt16", <<"+", "0">>, IntVal(FALSE, <<"0">>)>>,
    <<"EnvInt32", <<"+", "0">>, IntVal(FALSE, <<"0">>)>>,
    <<"EnvInt64", <<"+", "0">>, IntVal(FALSE, <<"0">>)>>,
    <<"EnvInt", <<"+", "1">>, IntVal(FALSE, <<"1">>)>>,
    <<"EnvInt8", <<"+", "1">>, IntVal(FALSE, <<"1">>)>>,
    <<"EnvInt16", <<"+", "1">>, IntVal(FALSE, <<"1">>)>>,
    <<"EnvInt32", <<"+", "1">>, IntVal(FALSE, <<"1">>)>>,
    <<"EnvInt64", <<"+", "1">>, IntVal(FALSE, <<"1">>)>>,
    <<"EnvInt", <<"-", "0">>, IntVal(FALSE, <<"0">>)>>,
    <<"EnvInt8", <<"-", "0">>, IntVal(FALSE, <<"0">>)>>,
    <<"EnvInt16", <<"-", "0">>, IntVal(FALSE, <<"0">>)>>,
    <<"EnvInt32", <<"-", "0">>, IntVal(FALSE, <<"0">>)>>,
    <<"EnvInt64", <<"-", "0">>, IntVal(FALSE, <<"0">>)>>,
    <<"EnvInt", <<"0", "0", "7">>, IntVal(FALSE, <<"7">>)>>,
    <<"EnvInt8", <<"0", "0", "7">>, IntVal(FALSE, <<"7">>)>>,
    <<"EnvInt16", <<"0", "0", "7">>, IntVal(FALSE, <<"7">>)>>,
    <<"EnvInt32", <<"0", "0", "7">>, IntVal(FALSE, <<"7">>)>>,
    <<"EnvInt64", <<"0", "0", "7">>, IntVal(FALSE, <<"7">>)>>,
    <<"EnvUint", <<"0", "0", "7">>, IntVal(FALSE, <<"7">>)>>,
    <<"EnvUint8", <<"0", "0", "7">>, IntVal(FALSE, <<"7">>)>>,
    <<"EnvUint16", <<"0", "0", "7">>, IntVal(FALSE, <<"7">>)>>,
    <<"EnvUint32", <<"0", "0", "7">>, IntVal(FALSE, <<"7">>)>>,
    <<"EnvUint64", <<"0", "0", "7">>, IntVal(FALSE, <<"7">>)>>,
    <<"EnvInt", <<"-", "0", "0", "7">>, IntVal(TRUE, <<"7">>)>>,
    <<"EnvInt8", <<"-", "0", "0", "7">>, IntVal(TRUE, <<"7">>)>>,
    <<"EnvInt16", <<"-", "0", "0", "7">>, IntVal(TRUE, <<"7">>)>>,
    <<"EnvInt32", <<"-", "0", "0", "7">>, IntVal(TRUE, <<"7">>)>>,
    <<"EnvInt64", <<"-", "0", "0", "7">>, IntVal(TRUE, <<"7">>)>>,
    <<"EnvInt", <<"1", "2", "7">>, IntVal(FALSE, <<"1", "2", "7">>)>>,
    <<"EnvInt8", <<"1", "2", "7">>, IntVal(FALSE, <<"1", "2", "7">>)>>,
    <<"EnvInt16", <<"1", "2", "7">>, IntVal(FALSE, <<"1", "2", "7">>)>>,
    <<"EnvInt32", <<"1", "2", "7">>, IntVal(FALSE, <<"1", "2", "7">>)>>,
    <<"EnvInt64", <<"1", "2", "7">>, IntVal(FALSE, <<"1", "2", "7">>)>>,
    <<"EnvUint", <<"1", "2", "7">>, IntVal(FALSE, <<"1", "2", "7">>)>>,
    <<"EnvUint8", <<"1", "2", "7">>, IntVal(FALSE, <<"1", "2", "7">>)>>,
    <<"EnvUint16", <<"1", "2", "7">>, IntVal(FALSE, <<"1", "2", "7">>)>>,
    <<"EnvUint32", <<"1", "2", "7">>, IntVal(FALSE, <<"1", "2", "7">>)>>,
    <<"EnvUint64", <<"1", "2", "7">>, IntVal(FALSE, <<"1", "2", "7">>)>>,
    <<"EnvInt", <<"1", "2", "8">>, IntVal(FALSE, <<"1", "2", "8">>)>>,
    <<"EnvInt16", <<"1", "2", "8">>, IntVal(FALSE, <<"1", "2", "8">>)>>,
    <<"EnvInt32", <<"1", "2", "8">>, IntVal(FALSE, <<"1", "2", "8">>)>>,
    <<"EnvInt64", <<"1", "2", "8">>, IntVal(FALSE, <<"1", "2", "8">>)>>,
    <<"EnvUint", <<"1", "2", "8">>, IntVal(FALSE, <<"1", "2", "8">>)>>,
    <<"EnvUint8", <<"1", "2", "8">>, IntVal(FALSE, <<"1", "2", "8">>)>>,
    <<"EnvUint16", <<"1", "2", "8">>, IntVal(FALSE, <<"1", "2", "8">>)>>,
    <<"EnvUint32", <<"1", "2", "8">>, IntVal(FALSE, <<"1", "2", "8">>)>>,
    <<"EnvUint64", <<"1", "2", "8">>, IntVal(FALSE, <<"1", "2", "8">>)>>,
    <<"EnvInt", <<"-", "1", "2", "8">>, IntVal(TRUE, <<"1", "2", "8">>)>>,
    <<"EnvInt8", <<"-", "1", "2", "8">>, IntVal(TRUE, <<"1", "2", "8">>)>>,
    <<"EnvInt16", <<"-", "1", "2", "8">>, IntVal(TRUE, <<"1", "2", "8">>)>>,
    <<"EnvInt32", <<"-", "1", "2", "8">>, IntVal(TRUE, <<"1", "2", "8">>)>>,
    <<"EnvInt64", <<"-", "1", "2", "8">>, IntVal(TRUE, <<"1", "2", "8">>)>>,
    <<"EnvInt", <<"-", "1", "2", "9">>, IntVal(TRUE, <<"1", "2", "9">>)>>,
    <<"EnvInt16", <<"-", "1", "2", "9">>, IntVal(TRUE, <<"1", "2", "9">>)>>,
    <<"EnvInt32", <<"-", "1", "2", "9">>, IntVal(TRUE, <<"1", "2", "9">>)>>,
    <<"EnvInt64", <<"-", "1", "2", "9">>, IntVal(TRUE, <<"1", "2", "9">>)>>,
    <<"EnvInt", <<"2", "5", "5">>, IntVal(FALSE, <<"2", "5", "5">>)>>,
    <<"EnvInt16", <<"2", "5", "5">>, IntVal(FALSE, <<"2", "5", "5">>)>>,
    <<"EnvInt32", <<"2", "5", "5">>, IntVal(FALSE, <<"2", "5", "5">>)>>,
    <<"EnvInt64", <<"2", "5", "5">>, IntVal(FALSE, <<"2", "5", "5">>)>>,
    <<"EnvUint", <<"2", "5", "5">>, IntVal(FALSE, <<"2", "5", "5">>)>>,
    <<"EnvUint8", <<"2", "5", "5">>, IntVal(FALSE, <<"2", "5", "5">>)>>,
    <<"EnvUint16", <<"2", "5", "5">>, IntVal(FALSE, <<"2", "5", "5">>)>>,
    <<"EnvUint32", <<"2", "5", "5">>, IntVal(FALSE, <<"2", "5", "5">>)>>,
    <<"EnvUint64", <<"2", "5", "5">>, IntVal(FALSE, <<"2", "5", "5">>)>>,
    <<"EnvInt", <<"2", "5", "6">>, IntVal(FALSE, <<"2", "5", "6">>)>>,
    <<"EnvInt16", <<"2", "5", "6">>, IntVal(FALSE, <<"2", "5", "6">>)>>,
    <<"EnvInt32", <<"2", "5", "6">>, IntVal(FALSE, <<"2", "5", "6">>)>>,
    <<"EnvInt64", <<"2", "5", "6">>, IntVal(FALSE, <<"2", "5", "6">>)>>,
    <<"EnvUint", <<"2", "5", "6">>, IntVal(FALSE, <<"2", "5", "6">>)>>,
    <<"EnvUint16", <<"2", "5", "6">>, IntVal(FALSE, <<"2", "5", "6">>)>>,
    <<"EnvUint32", <<"2", "5", "6">>, IntVal(FALSE, <<"2", "5", "6">>)>>,
    <<"EnvUint64", <<"2", "5", "6">>, IntVal(FALSE, <<"2", "5", "6">>)>>,
    <<"EnvInt", <<"3", "2", "7", "6", "7">>, IntVal(FALSE, <<"3", "2", "7", "6", "7">>)>>,
    <<"EnvInt16", <<"3", "2", "7", "6", "7">>, IntVal(FALSE, <<"3", "2", "7", "6", "7">>)>>,
    <<"EnvInt32", <<"3", "2", "7", "6", "7">>, IntVal(FALSE, <<"3", "2", "7", "6", "7">>)>>,
    <<"EnvInt64", <<"3", "2", "7", "6", "7">>, IntVal(FALSE, <<"3", "2", "7", "6", "7">>)>>,
    <<"EnvUint", <<"3", "2", "7", "6", "7">>, IntVal(FALSE, <<"3", "2", "7", "6", "7">>)>>,
    <<"EnvUint16", <<"3", "2", "7", "6", "7">>, IntVal(FALSE, <<"3", "2", "7", "6", "7">>)>>,
    <<"EnvUint32", <<"3", "2", "7", "6", "7">>, IntVal(FALSE, <<"3", "2", "7", "6", "7">>)>>,
    <<"EnvUint64", <<"3", "2", "7", "6", "7">>, IntVal(FALSE, <<"3", "2", "7", "6", "7">>)>>,
    <<"EnvInt", <<"3", "2", "7", "6", "8">>, IntVal(FALSE, <<"3", "2", "7", "6", "8">>)>>,
    <<"EnvInt32", <<"3", "2", "7", "6", "8">>, IntVal(FALSE, <<"3", "2", "7", "6", "8">>)>>,
    <<"EnvInt64", <<"3", "2", "7", "6", "8">>, IntVal(FALSE, <<"3", "2", "7", "6", "8">>)>>,
    <<"EnvUint", <<"3", "2", "7", "6", "8">>, IntVal(FALSE, <<"3", "2", "7", "6", "8">>)>>,
    <<"EnvUint16", <<"3", "2", "7", "6", "8">>, IntVal(FALSE, <<"3", "2", "7", "6", "8">>)>>,
    <<"EnvUint32", <<"3", "2", "7", "6", "8">>, IntVal(FALSE, <<"3", "2", "7", "6", "8">>)>>,
    <<"EnvUint64", <<"3", "2", "7", "6", "8">>, IntVal(FALSE, <<"3", "2", "7", "6", "8">>)>>,
    <<"EnvInt", <<"-", "3", "2", "7", "6", "8">>, IntVal(TRUE, <<"3", "2", "7", "6", "8">>)>>,
    <<"EnvInt16", <<"-", "3", "2", "7", "6", "8">>, IntVal(TRUE, <<"3", "2", "7", "6", "8">>)>>,
    <<"EnvInt32", <<"-", "3", "2", "7", "6", "8">>, IntVal(TRUE, <<"3", "2", "7", "6", "8">>)>>,
    <<"EnvInt64", <<"-", "3", "2", "7", "6", "8">>, IntVal(TRUE, <<"3", "2", "7", "6", "8">>)>>,
    <<"EnvInt", <<"-", "3", "2", "7", "6", "9">>, IntVal(TRUE, <<"3", "2", "7", "6", "9">>)>>,
    <<"EnvInt32", <<"-", "3", "2", "7", "6", "9">>, IntVal(TRUE, <<"3", "2", "7", "6", "9">>)>>,
    <<"EnvInt64", <<"-", "3", "2", "7", "6", "9">>, IntVal(TRUE, <<"3", "2", "7", "6", "9">>)>>,
    <<"EnvInt", <<"6", "5", "5", "3", "5">>, IntVal(FALSE, <<"6", "5", "5", "3", "5">>)>>,
    <<"EnvInt32", <<"6", "5", "5", "3", "5">>, IntVal(FALSE, <<"6", "5", "5", "3", "5">>)>>,
    <<"EnvInt64", <<"6", "5", "5", "3", "5">>, IntVal(FALSE, <<"6", "5", "5", "3", "5">>)>>,
    <<"EnvUint", <<"6", "5", "5", "3", "5">>, IntVal(FALSE, <<"6", "5", "5", "3", "5">>)>>,
    <<"EnvUint16", <<"6", "5", "5", "3", "5">>, IntVal(FALSE, <<"6", "5", "5", "3", "5">>)>>,
    <<"EnvUint32", <<"6", "5", "5", "3", "5">>, IntVal(FALSE, <<"6", "5", "5", "3", "5">>)>>,
    <<"EnvUint64", <<"6", "5", "5", "3", "5">>, IntVal(FALSE, <<"6", "5", "5", "3", "5">>)>>,
    <<"EnvInt", <<"6", "5", "5", "3", "6">>, IntVal(FALSE, <<"6", "5", "5", "3", "6">>)>>,
    <<"EnvInt32", <<"6", "5", "5", "3", "6">>, IntVal(FALSE, <<"6", "5", "5", "3", "6">>)>>,
    <<"EnvInt64", <<"6", "5", "5", "3", "6">>, IntVal(FALSE, <<"6", "5", "5", "3", "6">>)>>,
    <<"EnvUint", <<"6", "5", "5", "3", "6">>, IntVal(FALSE, <<"6", "5", "5", "3", "6">>)>>,
    <<"EnvUint32", <<"6", "5", "5", "3", "6">>, IntVal(FALSE, <<"6", "5", "5", "3", "6">>)>>,
    <<"EnvUint64", <<"6", "5", "5", "3", "6">>, IntVal(FALSE, <<"6", "5", "5", "3", "6">>)>>,
    <<"EnvInt", <<"2", "1", "4", "7", "4", "8", "3", "6", "4", "7">>, IntVal(FALSE, <<"2", "1", "4", "7", "4", "8", "3", "6", "4", "7">>)>>,
    <<"EnvInt32", <<"2", "1", "4", "7", "4", "8", "3", "6", "4", "7">>, IntVal(FALSE, <<"2", "1", "4", "7", "4", "8", "3", "6", "4", "7">>)>>,
    <<"EnvInt64", <<"2", "1", "4", "7", "4", "8", "3", "6", "4", "7">>, IntVal(FALSE, <<"2", "1", "4", "7", "4", "8", "3", "6", "4", "7">>)>>,
    <<"EnvUint", <<"2", "1", "4", "7", "4", "8", "3", "6", "4", "7">>, IntVal(FALSE, <<"2", "1", "4", "7", "4", "8", "3", "6", "4", "7">>)>>,
    <<"EnvUint32", <<"2", "1", "4", "7", "4", "8", "3", "6", "4", "7">>, IntVal(FALSE, <<"2", "1", "4", "7", "4", "8", "3", "6", "4", "7">>)>>,
    <<"EnvUint64", <<"2", "1", "4", "7", "4", "8", "3", "6", "4", "7">>, IntVal(FALSE, <<"2", "1", "4", "7", "4", "8", "3", "6", "4", "7">>)>>,
    <<"EnvInt", <<"2", "1", "4", "7", "4", "8", "3", "6", "4", "8">>, IntVal(FALSE, <<"2", "1", "4", "7", "4", "8", "3", "6", "4", "8">>)>>,
    <<"EnvInt64", <<"2", "1", "4", "7", "4", "8", "3", "6", "4", "8">>, IntVal(FALSE, <<"2", "1", "4", "7", "4", "8", "3", "6", "4", "8">>)>>,
    <<"EnvUint", <<"2", "1", "4", "7", "4", "8", "3", "6", "4", "8">>, IntVal(FALSE, <<"2", "1", "4", "7", "4", "8", "3", "6", "4", "8">>)>>,
    <<"EnvUint32", <<"2", "1", "4", "7", "4", "8", "3", "6", "4", "8">>, IntVal(FALSE, <<"2", "1", "4", "7", "4", "8", "3", "6", "4", "8">>)>>,
    <<"EnvUint64", <<"2", "1", "4", "7", "4", "8", "3", "6", "4", "8">>, IntVal(FALSE, <<"2", "1", "4", "7", "4", "8", "3", "6", "4", "8">>)>>,
    <<"EnvInt", <<"-", "2", "1", "4", "7", "4", "8", "3", "6", "4", "8">>, IntVal(TRUE, <<"2", "1", "4", "7", "4", "8", "3", "6", "4", "8">>)>>,
    <<"EnvInt32", <<"-", "2", "1", "4", "7", "4", "8", "3", "6", "4", "8">>, IntVal(TRUE, <<"2", "1", "4", "7", "4", "8", "3", "6", "4", "8">>)>>,
    <<"EnvInt64", <<"-", "2", "1", "4", "7", "4", "8", "3", "6", "4", "8">>, IntVal(TRUE, <<"2", "1", "4", "7", "4", "8", "3", "6", "4", "8">>)>>,
    <<"EnvInt", <<"-", "2", "1", "4", "7", "4", "8", "3", "6", "4", "9">>, IntVal(TRUE, <<"2", "1", "4", "7", "4", "8", "3", "6", "4", "9">>)>>,
    <<"EnvInt64", <<"-", "2", "1", "4", "7", "4", "8", "3", "6", "4", "9">>, IntVal(TRUE, <<"2", "1", "4", "7", "4", "8", "3", "6", "4", "9">>)>>,
    <<"EnvInt", <<"4", "2", "9", "4", "9", "6", "7", "2", "9", "5">>, IntVal(FALSE, <<"4", "2", "9", "4", "9", "6", "7", "2", "9", "5">>)>>,
    <<"EnvInt64", <<"4", "2", "9", "4", "9", "6", "7", "2", "9", "5">>, IntVal(FALSE, <<"4", "2", "9", "4", "9", "6", "7", "2", "9", "5">>)>>,
    <<"EnvUint", <<"4", "2", "9", "4", "9", "6", "7", "2", "9", "5">>, IntVal(FALSE, <<"4", "2", "9", "4", "9", "6", "7", "2", "9", "5">>)>>,
    <<"EnvUint32", <<"4", "2", "9", "4", "9", "6", "7", "2", "9", "5">>, IntVal(FALSE, <<"4", "2", "9", "4", "9", "6", "7", "2", "9", "5">>)>>,
    <<"EnvUint64", <<"4", "2", "9", "4", "9", "6", "7", "2", "9", "5">>, IntVal(FALSE, <<"4", "2", "9", "4", "9", "6", "7", "2", "9", "5">>)>>,
    <<"EnvInt", <<"4", "2", "9", "4", "9", "6", "7", "2", "9", "6">>, IntVal(FALSE, <<"4", "2", "9", "4", "9", "6", "7", "2", "9", "6">>)>>,
    <<"EnvInt64", <<"4", "2", "9", "4", "9", "6", "7", "2", "9", "6">>, IntVal(FALSE, <<"4", "2", "9", "4", "9", "6", "7", "2", "9", "6">>)>>,
    <<"EnvUint", <<"4", "2", "9", "4", "9", "6", "7", "2", "9", "6">>, IntVal(FALSE, <<"4", "2", "9", "4", "9", "6", "7", "2", "9", "6">>)>>,
    <<"EnvUint64", <<"4", "2", "9", "4", "9", "6", "7", "2", "9", "6">>, IntVal(FALSE, <<"4", "2", "9", "4", "9", "6", "7", "2", "9", "6">>)>>,
    <<"EnvInt", <<"9", "2", "2", "3", "3", "7", "2", "0", "3", "6", "8", "5", "4", "7", "7", "5", "8", "0", "7">>, IntVal(FALSE, <<"9", "2", "2", "3", "3", "7", "2", "0", "3", "6", "8", "5", "4", "7", "7", "5", "8", "0", "7">>)>>,
    <<"EnvInt64", <<"9", "2", "2", "3", "3", "7", "2", "0", "3", "6", "8", "5", "4", "7", "7", "5", "8", "0", "7">>, IntVal(FALSE, <<"9", "2", "2", "3", "3", "7", "2", "0", "3", "6", "8", "5", "4", "7", "7", "5", "8", "0", "7">>)>>,
    <<"EnvUint", <<"9", "2", "2", "3", "3", "7", "2", "0", "3", "6", "8", "5", "4", "7", "7", "5", "8", "0", "7">>, IntVal(FALSE, <<"9", "2", "2", "3", "3", "7", "2", "0", "3", "6", "8", "5", "4", "7", "7", "5", "8", "0", "7">>)>>,
    <<"EnvUint64", <<"9", "2", "2", "3", "3", "7", "2", "0", "3", "6", "8", "5", "4", "7", "7", "5", "8", "0", "7">>, IntVal(FALSE, <<"9", "2", "2", "3", "3", "7", "2", "0", "3", "6", "8", "5", "4", "7", "7", "5", "8", "0", "7">>)>>,
    <<"EnvUint", <<"9", "2", "2", "3", "3", "7", "2", "0", "3", "6", "8", "5", "4", "7", "7", "5", "8", "0", "8">>, IntVal(FALSE, <<"9", "2", "2", "3", "3", "7", "2", "0", "3", "6", "8", "5", "4", "7", "7", "5", "8", "0", "8">>)>>,
    <<"EnvUint64", <<"9", "2", "2", "3", "3", "7", "2", "0", "3", "6", "8", "5", "4", "7", "7", "5", "8", "0", "8">>, IntVal(FALSE, <<"9", "2", "2", "3", "3", "7", "2", "0", "3", "6", "8", "5", "4", "7", "7", "5", "8", "0", "8">>)>>,
    <<"EnvInt", <<"-", "9", "2", "2", "3", "3", "7", "2", "0", "3", "6", "8", "5", "4", "7", "7", "5", "8", "0", "8">>, IntVal(TRUE, <<"9", "2", "2", "3", "3", "7", "2", "0", "3", "6", "8", "5", "4", "7", "7", "5", "8", "0", "8">>)>>,
    <<"EnvInt64", <<"-", "9", "2", "2", "3", "3", "7", "2", "0", "3", "6", "8", "5", "4", "7", "7", "5", "8", "0", "8">>, IntVal(TRUE, <<"9", "2", "2", "3", "3", "7", "2", "0", "3", "6", "8", "5", "4", "7", "7", "5", "8", "0", "8">>)>>,
    <<"EnvUint", <<"1", "8", "4", "4", "6", "7", "4", "4", "0", "7", "3", "7", "0", "9", "5", "5", "1", "6", "1", "5">>, IntVal(FALSE, <<"1", "8", "4", "4", "6", "7", "4", "4", "0", "7", "3", "7", "0", "9", "5", "5", "1", "6", "1", "5">>)>>,
    <<"EnvUint64", <<"1", "8", "4", "4", "6", "7", "4", "4", "0", "7", "3", "7", "0", "9", "5", "5", "1", "6", "1", "5">>, IntVal(FALSE, <<"1", "8", "4", "4", "6", "7", "4", "4", "0", "7", "3", "7", "0", "9", "5", "5", "1", "6", "1", "5">>)>>,
    <<"EnvInt", <<"1", "6", "7", "7", "7", "2", "1", "7">>, IntVal(FALSE, <<"1", "6", "7", "7", "7", "2", "1", "7">>)>>,
    <<"EnvInt32", <<"1", "6", "7", "7", "7", "2", "1", "7">>, IntVal(FALSE, <<"1", "6", "7", "7", "7", "2", "1", "7">>)>>,
    <<"EnvInt64", <<"1", "6", "7", "7", "7", "2", "1", "7">>, IntVal(FALSE, <<"1", "6", "7", "7", "7", "2", "1", "7">>)>>,
    <<"EnvUint", <<"1", "6", "7", "7", "7", "2", "1", "7">>, IntVal(FALSE, <<"1", "6", "7", "7", "7", "2", "1", "7">>)>>,
    <<"EnvUint32", <<"1", "6", "7", "7", "7", "2", "1", "7">>, IntVal(FALSE, <<"1", "6", "7", "7", "7", "2", "1", "7">>)>>,
    <<"EnvUint64", <<"1", "6", "7", "7", "7", "2", "1", "7">>, IntVal(FALSE, <<"1", "6", "7", "7", "7", "2", "1", "7">>)>> }
FloatRows ==
  { <<"EnvFloat32", <<"+", "0">>, FloatVal("finite", FALSE, <<>>, 0)>>,
    <<"EnvFloat64", <<"+", "0">>, FloatVal("finite", FALSE, <<>>, 0)>>,
    <<"EnvFloat32", <<"+", "1">>, FloatVal("finite", FALSE, <<"1">>, 0)>>,
    <<"EnvFloat64", <<"+", "1">>, FloatVal("finite", FALSE, <<"1">>, 0)>>,
    <<"EnvFloat32", <<"-", "0">>, FloatVal("finite", TRUE, <<>>, 0)>>,
    <<"EnvFloat64", <<"-", "0">>, FloatVal("finite", TRUE, <<>>, 0)>>,
    <<"EnvFloat32", <<"0", "0", "7">>, FloatVal("finite", FALSE, <<"7">>, 0)>>,
    <<"EnvFloat64", <<"0", "0", "7">>, FloatVal("finite", FALSE, <<"7">>, 0)>>,
    <<"EnvFloat32", <<"-", "0", "0", "7">>, FloatVal("finite", TRUE, <<"7">>, 0)>>,
    <<"EnvFloat64", <<"-", "0", "0", "7">>, FloatVal("finite", TRUE, <<"7">>, 0)>>,
    <<"EnvFloat32", <<"1", ".", "5">>, FloatVal("finite", FALSE, <<"1", "5">>, 0)>>,
    <<"EnvFloat64", <<"1", ".", "5">>, FloatVal("finite", FALSE, <<"1", "5">>, 0)>>,
    <<"EnvFloat32", <<"1", "e", "3">>, FloatVal("finite", FALSE, <<"1">>, 3)>>,
    <<"EnvFloat64", <<"1", "e", "3">>, FloatVal("finite", FALSE, <<"1">>, 3)>>,
    <<"EnvFloat32", <<"1", "_", "0">>, FloatVal("finite", FALSE, <<"1">>, 1)>>,
    <<"EnvFloat64", <<"1", "_", "0">>, FloatVal("finite", FALSE, <<"1">>, 1)>>,
    <<"EnvFloat32", <<"1", "2", "7">>, FloatVal("finite", FALSE, <<"1", "2", "7">>, 2)>>,
    <<"EnvFloat64", <<"1", "2", "7">>, FloatVal("finite", FALSE, <<"1", "2", "7">>, 2)>>,
    <<"EnvFloat32", <<"1", "2", "8">>, FloatVal("finite", FALSE, <<"1", "2", "8">>, 2)>>,
    <<"EnvFloat64", <<"1", "2", "8">>, FloatVal("finite", FALSE, <<"1", "2", "8">>, 2)>>,
    <<"EnvFloat32", <<"-", "1", "2", "8">>, FloatVal("finite", TRUE, <<"1", "2", "8">>, 2)>>,
    <<"EnvFloat64", <<"-", "1", "2", "8">>, FloatVal("finite", TRUE, <<"1", "2", "8">>, 2)>>,
    <<"EnvFloat32", <<"-", "1", "2", "9">>, FloatVal("finite", TRUE, <<"1", "2", "9">>, 2)>>,
    <<"EnvFloat64", <<"-", "1", "2", "9">>, FloatVal("finite", TRUE, <<"1", "2", "9">>, 2)>>,
    <<"EnvFloat32", <<"2", "5", "5">>, FloatVal("finite", FALSE, <<"2", "5", "5">>, 2)>>,
    <<"EnvFloat64", <<"2", "5", "5">>, FloatVal("finite", FALSE, <<"2", "5", "5">>, 2)>>,
    <<"EnvFloat32", <<"2", "5", "6">>, FloatVal("finite", FALSE, <<"2", "5", "6">>, 2)>>,
    <<"EnvFloat64", <<"2", "5", "6">>, FloatVal("finite", FALSE, <<"2", "5", "6">>, 2)>>,
    <<"EnvFloat32", <<"3", "2", "7", "6", "7">>, FloatVal("finite", FALSE, <<"3", "2", "7", "6", "7">>, 4)>>,
    <<"EnvFloat64", <<"3", "2", "7", "6", "7">>, FloatVal("finite", FALSE, <<"3", "2", "7", "6", "7">>, 4)>>,
    <<"EnvFloat32", <<"3", "2", "7", "6", "8">>, FloatVal("finite", FALSE, <<"3", "2", "7", "6", "8">>, 4)>>,
    <<"EnvFloat64", <<"3", "2", "7", "6", "8">>, FloatVal("finite", FALSE, <<"3", "2", "7", "6", "8">>, 4)>>,
    <<"EnvFloat32", <<"-", "3", "2", "7", "6", "8">>, FloatVal("finite", TRUE, <<"3", "2", "7", "6", "8">>, 4)>>,
    <<"EnvFloat64", <<"-", "3", "2", "7", "6", "8">>, FloatVal("finite", TRUE, <<"3", "2", "7", "6", "8">>, 4)>>,
    <<"EnvFloat32", <<"-", "3", "2", "7", "6", "9">>, FloatVal("finite", TRUE, <<"3", "2", "7", "6", "9">>, 4)>>,
    <<"EnvFloat64", <<"-", "3", "2", "7", "6", "9">>, FloatVal("finite", TRUE, <<"3", "2", "7", "6", "9">>, 4)>>,
    <<"EnvFloat32", <<"6", "5", "5", "3", "5">>, FloatVal("finite", FALSE, <<"6", "5", "5", "3", "5">>, 4)>>,
    <<"EnvFloat64", <<"6", "5", "5", "3", "5">>, FloatVal("finite", FALSE, <<"6", "5", "5", "3", "5">>, 4)>>,
    <<"EnvFloat32", <<"6", "5", "5", "3", "6">>, FloatVal("finite", FALSE, <<"6", "5", "5", "3", "6">>, 4)>>,
    <<"EnvFloat64", <<"6", "5", "5", "3", "6">>, FloatVal("finite", FALSE, <<"6", "5", "5", "3", "6">>, 4)>>,
    <<"EnvFloat32", <<"2", "1", "4", "7", "4", "8", "3", "6", "4", "7">>, FloatVal("finite", FALSE, <<"2", "1", "4", "7", "4", "8", "3", "6", "4", "8">>, 9)>>,
    <<"EnvFloat64", <<"2", "1", "4", "7", "4", "8", "3", "6", "4", "7">>, FloatVal("finite", FALSE, <<"2", "1", "4", "7", "4", "8", "3", "6", "4", "7">>, 9)>>,
    <<"EnvFloat32", <<"2", "1", "4", "7", "4", "8", "3", "6", "4", "8">>, FloatVal("finite", FALSE, <<"2", "1", "4", "7", "4", "8", "3", "6", "4", "8">>, 9)>>,
    <<"EnvFloat64", <<"2", "1", "4", "7", "4", "8", "3", "6", "4", "8">>, FloatVal("finite", FALSE, <<"2", "1", "4", "7", "4", "8", "3", "6", "4", "8">>, 9)>>,
    <<"EnvFloat32", <<"-", "2", "1", "4", "7", "4", "8", "3", "6", "4", "8">>, FloatVal("finite", TRUE, <<"2", "1", "4", "7", "4", "8", "3", "6", "4", "8">>, 9)>>,
    <<"EnvFloat64", <<"-", "2", "1", "4", "7", "4", "8", "3", "6", "4", "8">>, FloatVal("finite", TRUE, <<"2", "1", "4", "7", "4", "8", "3", "6", "4", "8">>, 9)>>,
    <<"EnvFloat32", <<"-", "2", "1", "4", "7", "4", "8", "3", "6", "4", "9">>, FloatVal("finite", TRUE, <<"2", "1", "4", "7", "4", "8", "3", "6", "4", "8">>, 9)>>,
    <<"EnvFloat64", <<"-", "2", "1", "4", "7", "4", "8", "3", "6", "4", "9">>, FloatVal("finite", TRUE, <<"2", "1", "4", "7", "4", "8", "3", "6", "4", "9">>, 9)>>,
    <<"EnvFloat32", <<"4", "2", "9", "4", "9", "6", "7", "2", "9", "5">>, FloatVal("finite", FALSE, <<"4", "2", "9", "4", "9", "6", "7", "2", "9", "6">>, 9)>>,
    <<"EnvFloat64", <<"4", "2", "9", "4", "9", "6", "7", "2", "9", "5">>, FloatVal("finite", FALSE, <<"4", "2", "9", "4", "9", "6", "7", "2", "9", "5">>, 9)>>,
    <<"EnvFloat32", <<"4", "2", "9", "4", "9", "6", "7", "2", "9", "6">>, FloatVal("finite", FALSE, <<"4", "2", "9", "4", "9", "6", "7", "2", "9", "6">>, 9)>>,
    <<"EnvFloat64", <<"4", "2", "9", "4", "9", "6", "7", "2", "9", "6">>, FloatVal("finite", FALSE, <<"4", "2", "9", "4", "9", "6", "7", "2", "9", "6">>, 9)>>,
    <<"EnvFloat32", <<"9", "2", "2", "3", "3", "7", "2", "0", "3", "6", "8", "5", "4", "7", "7", "5", "8", "0", "7">>, FloatVal("finite", FALSE, <<"9", "2", "2", "3", "3", "7", "2", "0", "3", "6", "8", "5", "4", "7", "7", "5", "8", "0", "8">>, 18)>>,
    <<"EnvFloat64", <<"9", "2", "2", "3", "3", "7", "2", "0", "3", "6", "8", "5", "4", "7", "7", "5", "8", "0", "7">>, FloatVal("finite", FALSE, <<"9", "2", "2", "3", "3", "7", "2", "0", "3", "6", "8", "5", "4", "7", "7", "5", "8", "0", "8">>, 18)>>,
    <<"EnvFloat32", <<"9", "2", "2", "3", "3", "7", "2", "0", "3", "6", "8", "5", "4", "7", "7", "5", "8", "0", "8">>, FloatVal("finite", FALSE, <<"9", "2", "2", "3", "3", "7", "2", "0", "3", "6", "8", "5", "4", "7", "7", "5", "8", "0", "8">>, 18)>>,
    <<"EnvFloat64", <<"9", "2", "2", "3", "3", "7", "2", "0", "3", "6", "8", "5", "4", "7", "7", "5", "8", "0", "8">>, FloatVal("finite", FALSE, <<"9", "2", "2", "3", "3", "7", "2", "0", "3", "6", "8", "5", "4", "7", "7", "5", "8", "0", "8">>, 18)>>,
    <<"EnvFloat32", <<"-", "9", "2", "2", "3", "3", "7", "2", "0", "3", "6", "8", "5", "4", "7", "7", "5", "8", "0", "8">>, FloatVal("finite", TRUE, <<"9", "2", "2", "3", "3", "7", "2", "0", "3", "6", "8", "5", "4", "7", "7", "5", "8", "0", "8">>, 18)>>,
    <<"EnvFloat64", <<"-", "9", "2", "2", "3", "3", "7", "2", "0", "3", "6", "8", "5", "4", "7", "7", "5", "8", "0", "8">>, FloatVal("finite", TRUE, <<"9", "2", "2", "3", "3", "7", "2", "0", "3", "6", "8", "5", "4", "7", "7", "5", "8", "0", "8">>, 18)>>,
    <<"EnvFloat32", <<"-", "9", "2", "2", "3", "3", "7", "2", "0", "3", "6", "8", "5", "4", "7", "7", "5", "8", "0", "9">>, FloatVal("finite", TRUE, <<"9", "2", "2", "3", "3", "7", "2", "0", "3", "6", "8", "5", "4", "7", "7", "5", "8", "0", "8">>, 18)>>,
    <<"EnvFloat64", <<"-", "9", "2", "2", "3", "3", "7", "2", "0", "3", "6", "8", "5", "4", "7", "7", "5", "8", "0", "9">>, FloatVal("finite", TRUE, <<"9", "2", "2", "3", "3", "7", "2", "0", "3", "6", "8", "5", "4", "7", "7", "5", "8", "0", "8">>, 18)>>,
    <<"EnvFloat32", <<"1", "8", "4", "4", "6", "7", "4", "4", "0", "7", "3", "7", "0", "9", "5", "5", "1", "6", "1", "5">>, FloatVal("finite", FALSE, <<"1", "8", "4", "4", "6", "7", "4", "4", "0", "7", "3", "7", "0", "9", "5", "5", "1", "6", "1", "6">>, 19)>>,
    <<"EnvFloat64", <<"1", "8", "4", "4", "6", "7", "4", "4", "0", "7", "3", "7", "0", "9", "5", "5", "1", "6", "1", "5">>, FloatVal("finite", FALSE, <<"1", "8", "4", "4", "6", "7", "4", "4", "0", "7", "3", "7", "0", "9", "5", "5", "1", "6", "1", "6">>, 19)>>,
    <<"EnvFloat32", <<"1", "8", "4", "4", "6", "7", "4", "4", "0", "7", "3", "7", "0", "9", "5", "5", "1", "6", "1", "6">>, FloatVal("finite", FALSE, <<"1", "8", "4", "4", "6", "7", "4", "4", "0", "7", "3", "7", "0", "9", "5", "5", "1", "6", "1", "6">>, 19)>>,
    <<"EnvFloat64", <<"1", "8", "4", "4", "6", "7", "4", "4", "0", "7", "3", "7", "0", "9", "5", "5", "1", "6", "1", "6">>, FloatVal("finite", FALSE, <<"1", "8", "4", "4", "6", "7", "4", "4", "0", "7", "3", "7", "0", "9", "5", "5", "1", "6", "1", "6">>, 19)>>,
    <<"EnvFloat32", <<"1", ".", "5", "0">>, FloatVal("finite", FALSE, <<"1", "5">>, 0)>>,
    <<"EnvFloat64", <<"1", ".", "5", "0">>, FloatVal("finite", FALSE, <<"1", "5">>, 0)>>,
    <<"EnvFloat32", <<"0", "1", "5", "e", "-", "1">>, FloatVal("finite", FALSE, <<"1", "5">>, 0)>>,
    <<"EnvFloat64", <<"0", "1", "5", "e", "-", "1">>, FloatVal("finite", FALSE, <<"1", "5">>, 0)>>,
    <<"EnvFloat32", <<".", "5">>, FloatVal("finite", FALSE, <<"5">>, -1)>>,
    <<"EnvFloat64", <<".", "5">>, FloatVal("finite", FALSE, <<"5">>, -1)>>,
    <<"EnvFloat32", <<"5", ".">>, FloatVal("finite", FALSE, <<"5">>, 0)>>,
    <<"EnvFloat64", <<"5", ".">>, FloatVal("finite", FALSE, <<"5">>, 0)>>,
    <<"EnvFloat32", <<"1", "E", "-", "5">>, FloatVal("finite", FALSE, <<"9", "9", "9", "9", "9", "9", "9", "7", "4", "7", "3", "7", "8", "7", "5", "1", "6", "3", "5", "5", "5", "1", "4", "5", "2", "6", "3", "6", "7", "1", "8", "7", "5">>, -6)>>,
    <<"EnvFloat64", <<"1", "E", "-", "5">>, FloatVal("finite", FALSE, <<"1", "0", "0", "0", "0", "0", "0", "0", "0", "0", "0", "0", "0", "0", "0", "0", "0", "8", "1", "8", "0", "3", "0", "5", "3", "9", "1", "4", "0", "3", "1", "3", "0", "9", "5", "4", "5", "8", "6", "2", "3", "1", "3", "8", "2", "5", "6", "3", "7", "1", "0", "2", "1", "2", "7", "0", "7", "5", "1", "9", "5", "3", "1", "2", "5">>, -5)>>,
    <<"EnvFloat32", <<"i", "n", "f">>, FloatVal("inf", FALSE, <<>>, 0)>>,
    <<"EnvFloat64", <<"i", "n", "f">>, FloatVal("inf", FALSE, <<>>, 0)>>,
    <<"EnvFloat32", <<"-", "I", "n", "f">>, FloatVal("inf", TRUE, <<>>, 0)>>,
    <<"EnvFloat64", <<"-", "I", "n", "f">>, FloatVal("inf", TRUE, <<>>, 0)>>,
    <<"EnvFloat32", <<"N", "a", "N">>, FloatVal("nan", FALSE, <<>>, 0)>>,
    <<"EnvFloat64", <<"N", "a", "N">>, FloatVal("nan", FALSE, <<>>, 0)>>,
    <<"EnvFloat32", <<"3", ".", "4", "0", "2", "8", "2", "3", "5", "e", "3", "8">>, FloatVal("finite", FALSE, <<"3", "4", "0", "2", "8", "2", "3", "4", "6", "6", "3", "8", "5", "2", "8", "8", "5", "9", "8", "1", "1", "7", "0", "4", "1", "8", "3", "4", "8", "4", "5", "1", "6", "9", "2", "5", "4", "4">>, 38)>>,
    <<"EnvFloat64", <<"3", ".", "4", "0", "2", "8", "2", "3", "5", "e", "3", "8">>, FloatVal("finite", FALSE, <<"3", "4", "0", "2", "8", "2", "3", "4", "9", "9", "9", "9", "9", "9", "9", "9", "9", "1", "7", "5", "4", "7", "8", "8", "7", "4", "3", "7", "8", "1", "4", "3", "2", "6", "8", "8", "6", "4">>, 38)>>,
    <<"EnvFloat64", <<"3", ".", "4", "0", "2", "8", "2", "3", "6", "e", "3", "8">>, FloatVal("finite", FALSE, <<"3", "4", "0", "2", "8", "2", "3", "5", "9", "9", "9", "9", "9", "9", "9", "9", "9", "1", "1", "1", "3", "7", "2", "3", "4", "9", "0", "7", "1", "9", "6", "7", "4", "4", "0", "0", "7", "6", "8">>, 38)>>,
    <<"EnvFloat32", <<"1", "e", "3", "8">>, FloatVal("finite", FALSE, <<"9", "9", "9", "9", "9", "9", "9", "6", "8", "0", "2", "8", "5", "6", "9", "2", "4", "6", "5", "0", "6", "5", "6", "2", "6", "0", "7", "6", "9", "1", "7", "3", "2", "0", "9", "0", "8", "8">>, 37)>>,
    <<"EnvFloat64", <<"1", "e", "3", "8">>, FloatVal("finite", FALSE, <<"9", "9", "9", "9", "9", "9", "9", "9", "9", "9", "9", "9", "9", "9", "9", "9", "7", "7", "4", "8", "8", "0", "9", "8", "2", "3", "4", "5", "6", "0", "3", "4", "0", "2", "9", "5", "6", "8">>, 37)>>,
    <<"EnvFloat64", <<"1", "e", "3", "9">>, FloatVal("finite", FALSE, <<"9", "9", "9", "9", "9", "9", "9", "9", "9", "9", "9", "9", "9", "9", "9", "9", "3", "9", "7", "0", "9", "1", "6", "6", "3", "7", "1", "6", "0", "3", "1", "7", "8", "5", "8", "6", "1", "1", "2">>, 38)>>,
    <<"EnvFloat64", <<"1", "e", "3", "0", "8">>, FloatVal("finite", FALSE, <<"1", "0", "0", "0", "0", "0", "0", "0", "0", "0", "0", "0", "0", "0", "0", "0", "0", "1", "0", "9", "7", "9", "0", "6", "3", "6", "2", "9", "4", "4", "0", "4", "5", "5", "4", "1", "7", "4", "0", "4", "9", "2", "3", "0", "9", "6", "7", "7", "3", "1", "1", "8", "4", "6", "3", "3", "6", "8", "1", "0", "6", "8", "2", "9", "0", "3", "1", "5", "7", "5", "8", "5", "4", "0", "4", "9", "1", "1", "4", "9", "1", "5", "3", "7", "1", "6", "3", "3", "2", "8", "9", "7", "8", "4", "9", "4", "6", "8", "8", "8", "9", "9", "0", "6", "1", "2", "4", "9", "6", "6", "9", "7", "2", "1", "1", "7", "2", "5", "1", "5", "6", "1", "1", "5", "9", "0", "2", "8", "3", "7", "4", "3", "1", "4", "0", "0", "8", "8", "3", "2", "8", "3", "0", "7", "0", "0", "9", "1", "9", "8", "1", "4", "6", "0", "4", "6", "0", "3", "1", "2", "7", "1", "6", "6", "4", "5", "0", "2", "9", "3", "3", "0", "2", "7", "1", "8", "5", "6", "9", "7", "4", "8", "9", "6", "9", "9", "5", "8", "8", "5", "5", "9", "0", "4", "3", "3", "3", "8", "3", "8", "4", "4", "6", "6", "1", "6", "5", "0", "0", "1", "1", "7", "8", "4", "2", "6", "8", "9", "7", "6", "2", "6", "2", "1", "2", "9", "4", "5", "1", "7", "7", "6", "2", "8", "0", "9", "1", "1", "9", "5", "7", "8", "6", "7", "0", "7", "4", "5", "8", "1", "2", "2", "7", "8", "3", "9", "7", "0", "1", "7", "1", "7", "8", "4", "4", "1", "5", "1", "0", "5", "2", "9", "1", "8", "0", "2", "8", "9", "3", "2", "0", "7", "8", "7", "3", "2", "7", "2", "9", "7", "4", "8", "8", "5", "7", "1", "5", "4", "3", "0", "2", "2", "3", "1", "1", "8", "3", "3", "6">>, 308)>>,
    <<"EnvFloat64", <<"1", ".", "7", "9", "7", "6", "9", "3", "1", "3", "4", "8", "6", "2", "3", "1", "5", "7", "e", "3", "0", "8">>, FloatVal("finite", FALSE, <<"1", "7", "9", "7", "6", "9", "3", "1", "3", "4", "8", "6", "2", "3", "1", "5", "7", "0", "8", "1", "4", "5", "2", "7", "4", "2", "3", "7", "3", "1", "7", "0", "4", "3", "5", "6", "7", "9", "8", "0", "7", "0", "5", "6", "7", "5", "2", "5", "8", "4", "4", "9", "9", "6", "5", "9", "8", "9", "1", "7", "4", "7", "6", "8", "0", "3", "1", "5", "7", "2", "6", "0", "7", "8", "0", "0", "2", "8", "5", "3", "8", "7", "6", "0", "5", "8", "9", "5", "5", "8", "6", "3", "2", "7", "6", "6", "8", "7", "8", "1", "7", "1", "5", "4", "0", "4", "5", "8", "9", "5", "3", "5", "1", "4", "3", "8", "2", "4", "6", "4", "2", "3", "4", "3", "2", "1", "3", "2", "6", "8", "8", "9", "4", "6", "4", "1", "8", "2", "7", "6", "8", "4", "6", "7", "5", "4", "6", "7", "0", "3", "5", "3", "7", "5", "1", "6", "9", "8", "6", "0", "4", "9", "9", "1", "0", "5", "7", "6", "5", "5", "1", "2", "8", "2", "0", "7", "6", "2", "4", "5", "4", "9", "0", "0", "9", "0", "3", "8", "9", "3", "2", "8", "9", "4", "4", "0", "7", "5", "8", "6", "8", "5", "0", "8", "4", "5", "5", "1", "3", "3", "9", "4", "2", "3", "0", "4", "5", "8", "3", "2", "3", "6", "9", "0", "3", "2", "2", "2", "9", "4", "8", "1", "6", "5", "8", "0", "8", "5", "5", "9", "3", "3", "2", "1", "2", "3", "3", "4", "8", "2", "7", "4", "7", "9", "7", "8", "2", "6", "2", "0", "4", "1", "4", "4", "7", "2", "3", "1", "6", "8", "7", "3", "8", "1", "7", "7", "1", "8", "0", "9", "1", "9", "2", "9", "9", "8", "8", "1", "2", "5", "0", "4", "0", "4", "0", "2", "6", "1", "8", "4", "1", "2", "4", "8", "5", "8", "3", "6", "8">>, 308)>>,
    <<"EnvFloat32", <<"1", "e", "-", "4", "0", "0">>, FloatVal("finite", FALSE, <<>>, 0)>>,
    <<"EnvFloat64", <<"1", "e", "-", "4", "0", "0">>, FloatVal("finite", FALSE, <<>>, 0)>>,
    <<"EnvFloat32", <<"1", "_", "0", "0", "0", ".", "5">>, FloatVal("finite", FALSE, <<"1", "0", "0", "0", "5">>, 3)>>,
    <<"EnvFloat64", <<"1", "_", "0", "0", "0", ".", "5">>, FloatVal("finite", FALSE, <<"1", "0", "0", "0", "5">>, 3)>>,
    <<"EnvFloat32", <<"1", "e", "1", "_", "0">>, FloatVal("finite", FALSE, <<"1">>, 10)>>,
    <<"EnvFloat64", <<"1", "e", "1", "_", "0">>, FloatVal("finite", FALSE, <<"1">>, 10)>>,
    <<"EnvFloat32", <<"0", "x", "1", "p", "4">>, FloatVal("finite", FALSE, <<"1", "6">>, 1)>>,
    <<"EnvFloat64", <<"0", "x", "1", "p", "4">>, FloatVal("finite", FALSE, <<"1", "6">>, 1)>>,
    <<"EnvFloat32", <<"0", "x", "1", "p", "-", "2">>, FloatVal("finite", FALSE, <<"2", "5">>, -1)>>,
    <<"EnvFloat64", <<"0", "x", "1", "p", "-", "2">>, FloatVal("finite", FALSE, <<"2", "5">>, -1)>>,
    <<"EnvFloat32", <<"0", "X", "1", "P", "4">>, FloatVal("finite", FALSE, <<"1", "6">>, 1)>>,
    <<"EnvFloat64", <<"0", "X", "1", "P", "4">>, FloatVal("finite", FALSE, <<"1", "6">>, 1)>>,
    <<"EnvFloat32", <<"0", "x", "1", ".", "8", "p", "1">>, FloatVal("finite", FALSE, <<"3">>, 0)>>,
    <<"EnvFloat64", <<"0", "x", "1", ".", "8", "p", "1">>, FloatVal("finite", FALSE, <<"3">>, 0)>>,
    <<"EnvFloat32", <<"0", "x", "_", "1", "p", "0">>, FloatVal("finite", FALSE, <<"1">>, 0)>>,
    <<"EnvFloat64", <<"0", "x", "_", "1", "p", "0">>, FloatVal("finite", FALSE, <<"1">>, 0)>>,
    <<"EnvFloat32", <<"-", "0", "x", "1", "p", "-", "1">>, FloatVal("finite", TRUE, <<"5">>, -1)>>,
    <<"EnvFloat64", <<"-", "0", "x", "1", "p", "-", "1">>, FloatVal("finite", TRUE, <<"5">>, -1)>>,
    <<"EnvFloat32", <<"0", ".", "1">>, FloatVal("finite", FALSE, <<"1", "0", "0", "0", "0", "0", "0", "0", "1", "4", "9", "0", "1", "1", "6", "1", "1", "9", "3", "8", "4", "7", "6", "5", "6", "2", "5">>, -1)>>,
    <<"EnvFloat64", <<"0", ".", "1">>, FloatVal("finite", FALSE, <<"1", "0", "0", "0", "0", "0", "0", "0", "0", "0", "0", "0", "0", "0", "0", "0", "0", "5", "5", "5", "1", "1", "1", "5", "1", "2", "3", "1", "2", "5", "7", "8", "2", "7", "0", "2", "1", "1", "8", "1", "5", "8", "3", "4", "0", "4", "5", "4", "1", "0", "1", "5", "6", "2", "5">>, -1)>>,
    <<"EnvFloat32", <<"1", "6", "7", "7", "7", "2", "1", "7">>, FloatVal("finite", FALSE, <<"1", "6", "7", "7", "7", "2", "1", "6">>, 7)>>,
    <<"EnvFloat64", <<"1", "6", "7", "7", "7", "2", "1", "7">>, FloatVal("finite", FALSE, <<"1", "6", "7", "7", "7", "2", "1", "7">>, 7)>>,
    <<"EnvFloat32", <<"1", "e", "-", "4", "5">>, FloatVal("finite", FALSE, <<"1", "4", "0", "1", "2", "9", "8", "4", "6", "4", "3", "2", "4", "8", "1", "7", "0", "7", "0", "9", "2", "3", "7", "2", "9", "5", "8", "3", "2", "8", "9", "9", "1", "6", "1", "3", "1", "2", "8", "0", "2", "6", "1", "9", "4", "1", "8", "7", "6", "5", "1", "5", "7", "7", "1", "7", "5", "7", "0", "6", "8", "2", "8", "3", "8", "8", "9", "7", "9", "1", "0", "8", "2", "6", "8", "5", "8", "6", "0", "6", "0", "1", "4", "8", "6", "6", "3", "8", "1", "8", "8", "3", "6", "2", "1", "2", "1", "5", "8", "2", "0", "3", "1", "2", "5">>, -45)>>,
    <<"EnvFloat64", <<"1", "e", "-", "4", "5">>, FloatVal("finite", FALSE, <<"9", "9", "9", "9", "9", "9", "9", "9", "9", "9", "9", "9", "9", "9", "9", "9", "8", "4", "1", "0", "5", "1", "9", "7", "9", "6", "7", "2", "8", "1", "0", "8", "1", "1", "5", "8", "8", "5", "5", "5", "6", "1", "3", "0", "4", "7", "5", "7", "3", "0", "7", "9", "8", "5", "1", "0", "0", "2", "7", "3", "3", "2", "4", "3", "2", "7", "9", "7", "0", "1", "5", "8", "3", "0", "5", "7", "4", "3", "7", "4", "9", "2", "2", "1", "7", "6", "4", "9", "8", "0", "4", "5", "5", "5", "6", "5", "0", "3", "7", "1", "4", "6", "4", "5", "2", "7", "4", "7", "4", "6", "7", "7", "1", "4", "8", "3", "6", "7", "8", "7", "6", "4", "4", "4", "7", "2", "3", "3", "7", "8", "8", "8", "1", "4", "6", "2", "8", "4", "9", "6", "7", "6", "6", "0", "9", "0", "3", "9", "3", "0", "6", "6", "4", "0", "6", "2", "5">>, -46)>>,
    <<"EnvFloat32", <<"1", "e", "-", "4", "6">>, FloatVal("finite", FALSE, <<>>, 0)>>,
    <<"EnvFloat64", <<"1", "e", "-", "4", "6">>, FloatVal("finite", FALSE, <<"1", "0", "0", "0", "0", "0", "0", "0", "0", "0", "0", "0", "0", "0", "0", "0", "0", "2", "2", "9", "9", "9", "0", "4", "3", "4", "5", "3", "9", "1", "3", "2", "1", "6", "8", "2", "8", "5", "0", "5", "9", "6", "1", "6", "4", "0", "8", "8", "3", "0", "8", "4", "4", "8", "8", "7", "8", "9", "3", "4", "9", "3", "7", "8", "8", "3", "5", "2", "6", "4", "7", "4", "0", "1", "8", "7", "7", "2", "2", "5", "9", "1", "6", "5", "7", "3", "8", "2", "6", "9", "3", "1", "7", "6", "7", "1", "1", "5", "4", "4", "5", "4", "6", "1", "0", "7", "8", "9", "2", "0", "0", "3", "4", "2", "4", "9", "4", "2", "7", "6", "8", "6", "8", "5", "6", "5", "7", "0", "5", "7", "4", "0", "3", "6", "5", "9", "5", "6", "4", "4", "4", "2", "9", "3", "2", "6", "0", "5", "7", "4", "3", "4", "0", "8", "2", "0", "3", "1", "2", "5">>, -46)>>,
    <<"EnvFloat32", <<"0", "x", "1", "p", "-", "1", "4", "9">>, FloatVal("finite", FALSE, <<"1", "4", "0", "1", "2", "9", "8", "4", "6", "4", "3", "2", "4", "8", "1", "7", "0", "7", "0", "9", "2", "3", "7", "2", "9", "5", "8", "3", "2", "8", "9", "9", "1", "6", "1", "3", "1", "2", "8", "0", "2", "6", "1", "9", "4", "1", "8", "7", "6", "5", "1", "5", "7", "7", "1", "7", "5", "7", "0", "6", "8", "2", "8", "3", "8", "8", "9", "7", "9", "1", "0", "8", "2", "6", "8", "5", "8", "6", "0", "6", "0", "1", "4", "8", "6", "6", "3", "8", "1", "8", "8", "3", "6", "2", "1", "2", "1", "5", "8", "2", "0", "3", "1", "2", "5">>, -45)>>,
    <<"EnvFloat64", <<"0", "x", "1", "p", "-", "1", "4", "9">>, FloatVal("finite", FALSE, <<"1", "4", "0", "1", "2", "9", "8", "4", "6", "4", "3", "2", "4", "8", "1", "7", "0", "7", "0", "9", "2", "3", "7", "2", "9", "5", "8", "3", "2", "8", "9", "9", "1", "6", "1", "3", "1", "2", "8", "0", "2", "6", "1", "9", "4", "1", "8", "7", "6", "5", "1", "5", "7", "7", "1", "7", "5", "7", "0", "6", "8", "2", "8", "3", "8", "8", "9", "7", "9", "1", "0", "8", "2", "6", "8", "5", "8", "6", "0", "6", "0", "1", "4", "8", "6", "6", "3", "8", "1", "8", "8", "3", "6", "2", "1", "2", "1", "5", "8", "2", "0", "3", "1", "2", "5">>, -45)>>,
    <<"EnvFloat32", <<"0", "x", "1", "p", "-", "1", "5", "0">>, FloatVal("finite", FALSE, <<>>, 0)>>,
    <<"EnvFloat64", <<"0", "x", "1", "p", "-", "1", "5", "0">>, FloatVal("finite", FALSE, <<"7", "0", "0", "6", "4", "9", "2", "3", "2", "1", "6", "2", "4", "0", "8", "5", "3", "5", "4", "6", "1", "8", "6", "4", "7", "9", "1", "6", "4", "4", "9", "5", "8", "0", "6", "5", "6", "4", "0", "1", "3", "0", "9", "7", "0", "9", "3", "8", "2", "5", "7", "8", "8", "5", "8", "7", "8", "5", "3", "4", "1", "4", "1", "9", "4", "4", "8", "9", "5", "5", "4", "1", "3", "4", "2", "9", "3", "0", "3", "0", "0", "7", "4", "3", "3", "1", "9", "0", "9", "4", "1", "8", "1", "0", "6", "0", "7", "9", "1", "0", "1", "5", "6", "2", "5">>, -46)>>,
    <<"EnvFloat64", <<"0", "x", "1", "p", "1", "2", "8">>, FloatVal("finite", FALSE, <<"3", "4", "0", "2", "8", "2", "3", "6", "6", "9", "2", "0", "9", "3", "8", "4", "6", "3", "4", "6", "3", "3", "7", "4", "6", "0", "7", "4", "3", "1", "7", "6", "8", "2", "1", "1", "4", "5", "6">>, 38)>>,
    <<"EnvFloat32", <<"3", "4", "0", "2", "8", "2", "3", "5", "6", "7", "7", "9", "7", "3", "3", "6", "6", "1", "6", "3", "7", "5", "3", "9", "3", "9", "5", "4", "5", "8", "1", "4", "2", "5", "6", "8", "4", "4", "7">>, FloatVal("finite", FALSE, <<"3", "4", "0", "2", "8", "2", "3", "4", "6", "6", "3", "8", "5", "2", "8", "8", "5", "9", "8", "1", "1", "7", "0", "4", "1", "8", "3", "4", "8", "4", "5", "1", "6", "9", "2", "5", "4", "4">>, 38)>>,
    <<"EnvFloat64", <<"3", "4", "0", "2", "8", "2", "3", "5", "6", "7", "7", "9", "7", "3", "3", "6", "6", "1", "6", "3", "7", "5", "3", "9", "3", "9", "5", "4", "5", "8", "1", "4", "2", "5", "6", "8", "4", "4", "7">>, FloatVal("finite", FALSE, <<"3", "4", "0", "2", "8", "2", "3", "5", "6", "7", "7", "9", "7", "3", "3", "6", "6", "1", "6", "3", "7", "5", "3", "9", "3", "9", "5", "4", "5", "8", "1", "4", "2", "5", "6", "8", "4", "4", "8">>, 38)>>,
    <<"EnvFloat32", <<"I", "n", "f", "i", "n", "i", "t", "y">>, FloatVal("inf", FALSE, <<>>, 0)>>,
    <<"EnvFloat64", <<"I", "n", "f", "i", "n", "i", "t", "y">>, FloatVal("inf", FALSE, <<>>, 0)>> }
DurationRows ==
  { <<"EnvDuration", <<"+", "0">>, IntVal(FALSE, <<"0">>)>>,
    <<"EnvDuration", <<"-", "0">>, IntVal(FALSE, <<"0">>)>>,
    <<"EnvDuration", <<"1", "s">>, IntVal(FALSE, <<"1", "0", "0", "0", "0", "0", "0", "0", "0", "0">>)>>,
    <<"EnvDuration", <<"-", "1", "s">>, IntVal(TRUE, <<"1", "0", "0", "0", "0", "0", "0", "0", "0", "0">>)>>,
    <<"EnvDuration", <<"+", "1", ".", "5", "h">>, IntVal(FALSE, <<"5", "4", "0", "0", "0", "0", "0", "0", "0", "0", "0", "0", "0">>)>>,
    <<"EnvDuration", <<"1", "h", "3", "0", "m">>, IntVal(FALSE, <<"5", "4", "0", "0", "0", "0", "0", "0", "0", "0", "0", "0", "0">>)>>,
    <<"EnvDuration", <<"1", "h", "3", "0", "m", "1", "5", ".", "5", "s">>, IntVal(FALSE, <<"5", "4", "1", "5", "5", "0", "0", "0", "0", "0", "0", "0", "0">>)>>,
    <<"EnvDuration", <<".", "5", "s">>, IntVal(FALSE, <<"5", "0", "0", "0", "0", "0", "0", "0", "0">>)>>,
    <<"EnvDuration", <<"1", "m", "s">>, IntVal(FALSE, <<"1", "0", "0", "0", "0", "0", "0">>)>>,
    <<"EnvDuration", <<"1", "u", "s">>, IntVal(FALSE, <<"1", "0", "0", "0">>)>>,
    <<"EnvDuration", <<"1", "n", "s">>, IntVal(FALSE, <<"1">>)>>,
    <<"EnvDuration", <<"1", "0", "0", "m">>, IntVal(FALSE, <<"6", "0", "0", "0", "0", "0", "0", "0", "0", "0", "0", "0", "0">>)>>,
    <<"EnvDuration", <<"2", "5", "6", "2", "0", "4", "7", "h">>, IntVal(FALSE, <<"9", "2", "2", "3", "3", "6", "9", "2", "0", "0", "0", "0", "0", "0", "0", "0", "0", "0", "0">>)>>,
    <<"EnvDuration", <<"9", "2", "2", "3", "3", "7", "2", "0", "3", "6", "8", "5", "4", "7", "7", "5", "8", "0", "7", "n", "s">>, IntVal(FALSE, <<"9", "2", "2", "3", "3", "7", "2", "0", "3", "6", "8", "5", "4", "7", "7", "5", "8", "0", "7">>)>>,
    <<"EnvDuration", <<"-", "9", "2", "2", "3", "3", "7", "2", "0", "3", "6", "8", "5", "4", "7", "7", "5", "8", "0", "8", "n", "s">>, IntVal(TRUE, <<"9", "2", "2", "3", "3", "7", "2", "0", "3", "6", "8", "5", "4", "7", "7", "5", "8", "0", "8">>)>>,
    <<"EnvDuration", <<"0", "s">>, IntVal(FALSE, <<"0">>)>>,
    <<"EnvDuration", <<"1", ".", "9", "9", "9", "9", "9", "9", "9", "9", "9", "s">>, IntVal(FALSE, <<"1", "9", "9", "9", "9", "9", "9", "9", "9", "9">>)>>,
    <<"EnvDuration", <<"0", ".", "9", "9", "9", "9", "9", "9", "9", "9", "9", "9", "9", "9", "9", "9", "9", "9", "s">>, IntVal(FALSE, <<"1", "0", "0", "0", "0", "0", "0", "0", "0", "0">>)>>,
    <<"EnvDuration", <<"1", ".", "9", "9", "9", "9", "9", "9", "9", "9", "9", "9", "9", "9", "9", "9", "9", "9", "s">>, IntVal(FALSE, <<"2", "0", "0", "0", "0", "0", "0", "0", "0", "0">>)>>,
    <<"EnvDuration", <<"2", ".", "9", "9", "9", "9", "9", "9", "9", "9", "9", "9", "9", "9", "9", "9", "9", "9", "h">>, IntVal(FALSE, <<"1", "0", "8", "0", "0", "0", "0", "0", "0", "0", "0", "0", "0", "0">>)>>,
    <<"EnvDuration", <<"0", ".", "9", "9", "9", "9", "9", "9", "9", "9", "9", "9", "9", "9", "9", "9", "9", "9", "n", "s">>, IntVal(FALSE, <<"1">>)>>,
    <<"EnvDuration", <<"0", ".", "5", "n", "s">>, IntVal(FALSE, <<"0">>)>>,
    <<"EnvDuration", <<"1", ".", "5", "u", "s">>, IntVal(FALSE, <<"1", "5", "0", "0">>)>>,
    <<"EnvDuration", <<"0", ".", "9", "9", "9", "9", "9", "9", "9", "9", "9", "9", "9", "9", "9", "9", "9", "9", "9", "9", "9", "9", "9", "9", "9", "s">>, IntVal(FALSE, <<"1", "0", "0", "0", "0", "0", "0", "0", "0", "0">>)>>,
    <<"EnvDuration", <<"0", ".", "3", "s">>, IntVal(FALSE, <<"3", "0", "0", "0", "0", "0", "0", "0", "0">>)>> }
BoolRows ==
  { <<"EnvBool", <<"t", "r", "u", "e">>, TRUE>>,
    <<"EnvBool", <<"T", "R", "U", "E">>, TRUE>>,
    <<"EnvBool", <<"T", "r", "u", "e">>, TRUE>>,
    <<"EnvBool", <<"f", "a", "l", "s", "e">>, FALSE>>,
    <<"EnvBool", <<"F", "A", "L", "S", "E">>, FALSE>>,
    <<"EnvBool", <<"F", "a", "l", "s", "e">>, FALSE>>,
    <<"EnvBool", <<"t">>, TRUE>>,
    <<"EnvBool", <<"F">>, FALSE>> }

\* the type's zero value
ZeroOf(fn) ==
  IF fn \in FloatFns THEN ZeroFloat ELSE IF fn = "EnvBool" THEN FALSE ELSE ZeroInt

\* what a call returns when the variable is unset or does not convert
Fallback(o) ==
  IF Len(o.defaultValue) > 0 THEN o.defaultValue[1] ELSE ZeroOf(o.fn)

RECURSIVE NatOf(_)
\* the number written by the decimal digits s
NatOf(s) == IF s = <<>> THEN 0 ELSE NatOf(SubSeq(s, 1, Len(s) - 1)) * 10 + DigitVal(s[Len(s)])

\* the least and the greatest value of an integer type, as far as numbers of
\* at most nine digits can tell
LeastOf(fn) ==
  CASE fn = "EnvInt8" -> -128
    [] fn = "EnvInt16" -> -32768
    [] fn \in SignedFns \ {"EnvInt8", "EnvInt16"} -> -999999999
    [] OTHER -> 0
GreatestOf(fn) ==
  CASE fn = "EnvInt8" -> 127
    [] fn = "EnvInt16" -> 32767
    [] fn = "EnvUint8" -> 255
    [] fn = "EnvUint16" -> 65535
    [] OTHER -> 999999999

\* the value the call recorded in o has to return for the text t of at most
\* nine bytes read as an integer
ShortIntLaw(o, t) ==
  LET signed == t # <<>> /\ t[1] \in {"+", "-"}
      body == IF signed THEN Tail(t) ELSE t
      wf == body # <<>> /\ IsDigits(body)
      n == NatOf(body)
      v == IF t[1] = "-" THEN 0 - n ELSE n
  IN  IF wf /\ LeastOf(o.fn) <= v /\ v <= GreatestOf(o.fn)
             /\ (signed => o.fn \in SignedFns)
      THEN /\ o.value.neg = (v < 0)
           /\ NatOf(o.value.mag) = n
           /\ (Len(o.value.mag) = 1 \/ o.value.mag[1] # "0")
      ELSE o.value = Fallback(o)

\* the value the call recorded in o has to return for the text t of at most
\* seven digits read as a float, which both float types hold exactly
ShortFloatLaw(o, t) ==
  IF StripZeros(t) = <<"0">> THEN o.value = ZeroFloat
  ELSE /\ o.value.class = "finite"
       /\ ~o.value.neg
       /\ o.value.digits # <<>>
       /\ o.value.digits[Len(o.value.digits)] # "0"
       /\ Len(o.value.digits) <= o.value.exp + 1
       /\ NatOf(o.value.digits) * 10 ^ (o.value.exp + 1 - Len(o.value.digits)) = NatOf(t)

\* the value the call recorded in o has to return for the limit text t
RowLaw(o, t, rows) ==
  IF \E r \in rows : r[1] = o.fn /\ r[2] = t
  THEN o.value = (CHOOSE r \in rows : r[1] = o.fn /\ r[2] = t)[3]
  ELSE o.value = Fallback(o)

\* C19: every numeric, boolean and duration accessor returns the default
\* (the zero value without one) when the variable is unset; for a set
\* variable it returns the converted value when the text converts within
\* the range of its type, and the default (or zero) when it does not: an
\* out-of-range text never comes back truncated.  Integers and floats are
\* checked against the numeric value of every short text of digits, all
\* types against the texts at their limits (a float is the exact value of
\* the float32 or float64 nearest to the text), and every type against the
\* bytes none of its numbers holds.
C19_TypedAccessors ==
  out.fn \in IntFns \cup FloatFns \cup {"EnvBool", "EnvDuration"} =>
    IF out.key \notin DOMAIN osenv
    THEN out.value = Fallback(out)
    ELSE LET t == osenv[out.key]
         IN  /\ (out.fn \in IntFns /\ Len(t) <= 9 /\ t # <<>>) => ShortIntLaw(out, t)
             /\ (out.fn \in IntFns /\ t \in BoundaryTexts) => RowLaw(out, t, IntRows)
             /\ (out.fn \in FloatFns /\ t \in BoundaryTexts) => RowLaw(out, t, FloatRows)
             /\ (out.fn = "EnvDuration" /\ t \in BoundaryTexts) => RowLaw(out, t, DurationRows)
             /\ (out.fn = "EnvBool" /\ t \in BoundaryTexts) => RowLaw(out, t, BoolRows)
             /\ (out.fn \in FloatFns /\ Len(t) <= 7 /\ t # <<>> /\ IsDigits(t)) =>
                  ShortFloatLaw(out, t)
             /\ (out.fn # "EnvBool" /\ (t = <<>> \/ \E i \in 1..Len(t) : t[i] = " ")) =>
                  out.value = Fallback(out)
             /\ (out.fn \in IntFns \cup {"EnvDuration"} /\ \E i \in 1..Len(t) : t[i] \in {"x", "_"}) =>
                  out.value = Fallback(out)
             /\ (out.fn \in FloatFns /\ \E i \in 1..Len(t) : t[i] = "s") =>
                  out.value = Fallback(out)

-----------------------------------------------------------------------------
(* Struct binder (dotenv.go: Unmarshal, UnmarshalWithPrefix, setFieldValue) *)
(* target is the argument of Unmarshal: what it is (a pointer to a struct, *)
(* a struct, a nil pointer, something else), the fields of the struct      *)
(* (kind, env tag,                                                          *)
(* exported or not) and the value each field holds                          *)

RECURSIVE Low32(_, _, _)
\* the low 32 bits of the number written by the digits s, as two 16-bit
\* halves, hi and lo being the halves of the number read so far
Low32(s, hi, lo) ==
  IF s = <<>> THEN [hi |-> hi, lo |-> lo]
  ELSE LET l == lo * 10 + DigitVal(s[1])
       IN  Low32(Tail(s), (hi * 10 + l \div 65536) % 65536, l % 65536)

\* the two's complement of the 32 bits b
Neg32(b) ==
  IF b.lo = 0 THEN [hi |-> (65536 - b.hi) % 65536, lo |-> 0]
  ELSE [hi |-> 65535 - b.hi, lo |-> 65536 - b.lo]

\* the decimal digits of the 32 bits b read as an unsigned number
Dec32(b) == DecAdd(DecMul(NatToDec(b.hi), 65536), NatToDec(b.lo))

\* the integer v cut to the low w bits and read as a signed number of w
\* bits, as reflect's SetInt stores it in a field of w bits (w = 64: v)
WrapInt(v, w) ==
  IF w = 64 THEN v
  ELSE LET m == Low32(v.mag, 0, 0)
           b == IF v.neg THEN Neg32(m) ELSE m
       IN  IF w = 32
           THEN (IF b.hi >= 32768 THEN IntVal(TRUE, Dec32(Neg32(b)))
                 ELSE IntVal(FALSE, Dec32(b)))
           ELSE LET u == IF w = 16 THEN b.lo ELSE b.lo % 256
                    half == IF w = 16 THEN 32768 ELSE 128
                IN  IF u >= half THEN IntVal(TRUE, NatToDec(2 * half - u))
                    ELSE IntVal(FALSE, NatToDec(u))

\* the unsigned integer v cut to the low w bits, as reflect's SetUint stores
\* it in a field of w bits (w = 64: v)
WrapUint(v, w) ==
  IF w = 64 THEN v
  ELSE LET b == Low32(v.mag, 0, 0)
       IN  IF w = 32 THEN IntVal(FALSE, Dec32(b))
           ELSE IF w = 16 THEN IntVal(FALSE, NatToDec(b.lo))
           ELSE IntVal(FALSE, NatToDec(b.lo % 256))

\* the float64 v as reflect's SetFloat stores it in a field of w bits: a
\* float32 field holds float32(v), the float32 nearest to v, which is
\* infinity beyond the float32 range and zero below it
WrapFloat(v, w) ==
  IF w = 64 \/ v.class # "finite" THEN v
  ELSE DecimalToFloat(v.neg, v.digits, v.exp, 32)


RECURSIVE Split(_, _)
\* strings.Split(s, sep) for a one-byte separator
Split(s, sep) ==
  IF \A i \in 1..Len(s) : s[i] # sep THEN <<s>>
  ELSE LET k == CHOOSE i \in 1..Len(s) :
                  s[i] = sep /\ \A j \in 1..(i - 1) : s[j] # sep
       IN  <<SubSeq(s, 1, k - 1)>> \o Split(SubSeq(s, k + 1, Len(s)), sep)

RECURSIVE TrimSpace(_)
\* strings.TrimSpace(s)
TrimSpace(s) ==
  IF s # <<>> /\ IsSpace(s[1]) THEN TrimSpace(Tail(s))
  ELSE IF s # <<>> /\ IsSpace(s[Len(s)])
  THEN TrimSpace(SubSeq(s, 1, Len(s) - 1))
  ELSE s

DefaultPrefix == <<"d", "e", "f", "a", "u", "l", "t", "=">>

RECURSIVE TagOptions(_, _)
\* the loop over parts[1:] of the env tag: opts are the parts still to read,
\* o the options read so far
TagOptions(opts, o) ==
  IF opts = <<>> THEN o
  ELSE LET part == TrimSpace(opts[1])
       IN  TagOptions(Tail(opts),
             IF part = <<"r", "e", "q", "u", "i", "r", "e", "d">>
             THEN [o EXCEPT !.required = TRUE]
             ELSE IF HasPrefixAt(part, 0, DefaultPrefix)
             THEN [o EXCEPT !.defaultValue = SubSeq(part, 9, Len(part))]
             ELSE o)

\* the errors of Unmarshal: each names the key of the field
NotPointerToStruct == [what |-> "unmarshal target must be a pointer to struct", key |-> <<>>]
RequiredMissing(envKey) == [what |-> "required", key |-> envKey]
ConversionFailed(envKey) == [what |-> "parse", key |-> envKey]
Unsupported(envKey) == [what |-> "unsupported", key |-> envKey]

IntKinds == {"int", "int8", "int16", "int32", "int64"}
UintKinds == {"uint", "uint8", "uint16", "uint32", "uint64"}
FloatKinds == {"float32", "float64"}

\* the width in bits of a numeric kind (int and uint on a 64-bit build)
KindBits(kind) ==
  CASE kind \in {"int8", "uint8"} -> 8
    [] kind \in {"int16", "uint16"} -> 16
    [] kind \in {"int32", "uint32", "float32"} -> 32
    [] OTHER -> 64

\* the outcome of setFieldValue for a duration and for a float of the
\* given width, p being the outcome of the conversion of the text
durationField(p, envKey) ==
  [val |-> p.val, err |-> IF p.err = "none" THEN NilError ELSE ConversionFailed(envKey)]
floatField(p, bits, envKey) ==
  [val |-> WrapFloat(p.val, bits),
   err |-> IF p.err = "none" THEN NilError ELSE ConversionFailed(envKey)]

\* setFieldValue(field, value, envKey): the value stored and the error
setFieldValue(kind, value, envKey) ==
  IF kind = "string" THEN [val |-> value, err |-> NilError]
  ELSE IF kind = "duration" THEN durationField(ParseDuration(value), envKey)
  ELSE IF kind \in IntKinds THEN
    LET p == ParseInt(value, 64)
    IN  [val |-> WrapInt(p.val, KindBits(kind)),
         err |-> IF p.err = "none" THEN NilError ELSE ConversionFailed(envKey)]
  ELSE IF kind \in UintKinds THEN
    LET p == ParseUint(value, 64)
    IN  [val |-> WrapUint(p.val, KindBits(kind)),
         err |-> IF p.err = "none" THEN NilError ELSE ConversionFailed(envKey)]
  ELSE IF kind \in FloatKinds THEN floatField(ParseFloat(value, 64), KindBits(kind), envKey)
  ELSE IF kind = "bool" THEN
    LET p == ParseBool(value)
    IN  [val |-> p.val, err |-> IF p.ok THEN NilError ELSE ConversionFailed(envKey)]
  ELSE IF kind = "[]string" THEN
    LET parts == Split(value, ",")
    IN  [val |-> [i \in 1..Len(parts) |-> TrimSpace(parts[i])], err |-> NilError]
  ELSE [val |-> <<>>, err |-> Unsupported(envKey)]

\* what follows the call of setFieldValue for a field holding val, s being
\* its outcome: an error leaves the field as it is, else the value is stored
setField(val, s) ==
  IF s.err # NilError THEN [val |-> val, err |-> s.err] ELSE s

\* one turn of the loop of UnmarshalWithPrefix, for the field f holding
\* val, e being the process environment at the time of the one
\* os.LookupEnv of the turn: the value the field holds afterwards and the
\* error that ends the loop; a field that is not exported or has no env tag
\* is passed over
unmarshalField(f, val, e, prefix) ==
  IF ~f.exported \/ f.tag = <<>> THEN [val |-> val, err |-> NilError]
  ELSE
    LET parts == Split(f.tag, ",")
        envKey == prefix \o parts[1]
        o == TagOptions(Tail(parts), [required |-> FALSE, defaultValue |-> <<>>])
        l == LookupEnv(e, envKey)
    IN  IF ~l.exists /\ o.required
        THEN [val |-> val, err |-> RequiredMissing(envKey)]
        ELSE IF ~l.exists /\ o.defaultValue = <<>>
        THEN [val |-> val, err |-> NilError]
        ELSE setField(val, setFieldValue(f.kind,
                                         IF l.exists THEN l.value ELSE o.defaultValue,
                                         envKey))

\* the prefixes passed: none (Unmarshal) and APP_
Prefixes == {<<>>, <<"A", "P", "P", "_">>}

\* a call of Unmarshal or UnmarshalWithPrefix on target: an argument that
\* is not a pointer to a struct is refused, else the loop over the fields
\* of the struct pointed to begins; out holds the prefix, the index i of
\* the field the loop is at (from 1) and the error the call returns
CallUnmarshal ==
  /\ pc \in {"call", "applied"}
  /\ \E prefix \in Prefixes :
       out' = [fn |-> "Unmarshal", prefix |-> prefix, i |-> 1,
               err |-> IF target.shape # "pointer" THEN NotPointerToStruct ELSE NilError]
  /\ pc' = IF target.shape # "pointer" THEN "returned" ELSE "unmarshal"
  /\ UNCHANGED <<content, pos, line, col, env, result, ret, input, file, osenv,
                 target, source, pending>>

\* what a turn of the loop leaves, r being its outcome for field out.i: an
\* error is returned, else the loop goes on with the next field
unmarshalTurn(r) ==
  /\ target' = [target EXCEPT !.values[out.i] = r.val]
  /\ out' = [out EXCEPT !.i = IF r.err = NilError THEN out.i + 1 ELSE out.i,
                        !.err = r.err]
  /\ pc' = IF r.err = NilError THEN "unmarshal" ELSE "returned"

\* one turn of the loop of UnmarshalWithPrefix: field out.i is resolved
\* from the process environment as it is now
UnmarshalIter ==
  /\ pc = "unmarshal"
  /\ out.i <= Len(target.fields)
  /\ unmarshalTurn(unmarshalField(target.fields[out.i], target.values[out.i],
                                  osenv, out.prefix))
  /\ UNCHANGED <<content, pos, line, col, env, result, ret, input, file, osenv,
                 source, pending>>

\* the loop of UnmarshalWithPrefix is over: it returns nil
UnmarshalReturn ==
  /\ pc = "unmarshal"
  /\ out.i > Len(target.fields)
  /\ pc' = "returned"
  /\ UNCHANGED <<content, pos, line, col, env, result, ret, input, file, osenv,
                 out, target, source, pending>>

\* the keys another goroutine sets and unsets meanwhile: those of the
\* fields, and the keys os.Setenv refuses
ConcurrentKeys == SetKeys \cup {<<"L">>}

\* SetEnv called by another goroutine between two turns of the loop of
\* UnmarshalWithPrefix, which holds no lock across its lookups
ConcurrentSetEnv ==
  /\ pc = "unmarshal"
  /\ \E key \in ConcurrentKeys, value \in SetValues :
       osenv' = SetEnv(osenv, key, value).env
  /\ UNCHANGED <<content, pos, line, col, env, result, pc, ret, input, file,
                 out, target, source, pending>>

\* UnsetEnv called by another goroutine between two turns of the loop
ConcurrentUnsetEnv ==
  /\ pc = "unmarshal"
  /\ \E key \in ConcurrentKeys : osenv' = UnsetEnv(osenv, key).env
  /\ UNCHANGED <<content, pos, line, col, env, result, pc, ret, input, file,
                 out, target, source, pending>>

-----------------------------------------------------------------------------
(* SpecUnmarshal: Unmarshal over structs of a few tagged fields, while    *)
(* another goroutine may set and unset the variables K and L              *)

MaxFields == 2

\* the fields the structs are made of: kind, env tag, exported or not, and
\* the value the field holds before the call
FieldChoices ==
  { [kind |-> "string", tag |-> <<"K">>, exported |-> TRUE, value |-> <<>>],
    [kind |-> "string", tag |-> <<"K", ",", "d", "e", "f", "a", "u", "l", "t", "=", "d">>, exported |-> TRUE, value |-> <<"p">>],
    [kind |-> "string", tag |-> <<"K", ",", "d", "e", "f", "a", "u", "l", "t", "=">>, exported |-> TRUE, value |-> <<"p">>],
    [kind |-> "int8", tag |-> <<"K">>, exported |-> TRUE, value |-> ZeroInt],
    [kind |-> "int", tag |-> <<"K", ",", "r", "e", "q", "u", "i", "r", "e", "d">>, exported |-> TRUE, value |-> ZeroInt],
    [kind |-> "int", tag |-> <<"L", ",", "d", "e", "f", "a", "u", "l", "t", "=", "5">>, exported |-> TRUE, value |-> ZeroInt],
    [kind |-> "int", tag |-> <<"L", ",", "d", "e", "f", "a", "u", "l", "t", "=", "x">>, exported |-> TRUE, value |-> ZeroInt],
    [kind |-> "bool", tag |-> <<"K">>, exported |-> TRUE, value |-> FALSE],
    [kind |-> "uint8", tag |-> <<"K", ",", FF, "r", "e", "q", "u", "i", "r", "e", "d", SP>>, exported |-> TRUE, value |-> ZeroInt],
    [kind |-> "string", tag |-> <<"K", ",", NBSP, "d", "e", "f", "a", "u", "l", "t", "=", "d", VT>>, exported |-> TRUE, value |-> <<"p">>],
    [kind |-> "[]string", tag |-> <<"K", ",", "d", "e", "f", "a", "u", "l", "t", "=", "a", ",", "b">>, exported |-> TRUE, value |-> <<>>],
    [kind |-> "[]int", tag |-> <<"K">>, exported |-> TRUE, value |-> <<>>],
    [kind |-> "string", tag |-> <<>>, exported |-> TRUE, value |-> <<"p">>],
    [kind |-> "string", tag |-> <<"K">>, exported |-> FALSE, value |-> <<>>],
    [kind |-> "duration", tag |-> <<"K", ",", "d", "e", "f", "a", "u", "l", "t", "=", "1", "s">>, exported |-> TRUE, value |-> ZeroInt],
    [kind |-> "float32", tag |-> <<"K">>, exported |-> TRUE, value |-> ZeroFloat],
    [kind |-> "int", tag |-> <<"L", ",", "r", "e", "q", "u", "i", "r", "e", "d", ",", "d", "e", "f", "a", "u", "l", "t", "=", "5">>, exported |-> TRUE, value |-> ZeroInt],
    [kind |-> "uint16", tag |-> <<"K">>, exported |-> TRUE, value |-> ZeroInt],
    [kind |-> "int32", tag |-> <<"K">>, exported |-> TRUE, value |-> IntVal(FALSE, <<"9">>)] }

RECURSIVE StructsOf(_)
\* the structs of n fields
StructsOf(n) ==
  IF n = 0 THEN {<<>>}
  ELSE { Append(s, f) : s \in StructsOf(n - 1), f \in FieldChoices }

\* a pointer to the struct of the fields fs, each holding its value
NewStruct(fs) ==
  [shape |-> "pointer",
   fields |-> [i \in 1..Len(fs) |-> [kind |-> fs[i].kind, tag |-> fs[i].tag,
                                      exported |-> fs[i].exported]],
   values |-> [i \in 1..Len(fs) |-> fs[i].value]]

\* the struct itself, passed by value
StructValue(fs) == [NewStruct(fs) EXCEPT !.shape = "struct"]

\* a nil pointer to a struct, and an argument that is neither a struct nor
\* a pointer to one (a string, an int, a pointer to an int)
NilPointer == [shape |-> "nil pointer", fields |-> <<>>, values |-> <<>>]
NotAStruct == [shape |-> "other", fields |-> <<>>, values |-> <<>>]

ProcessEnvs ==
  { EmptyEnv,
    (<<"K">> :> <<"5">>),
    (<<"K">> :> <<"3", "0", "0">>),
    (<<"K">> :> <<"-", "1">>),
    (<<"K">> :> <<"x">>),
    (<<"K">> :> <<"t", "r", "u", "e">>),
    (<<"K">> :> <<"a", ",", SP, FF, "b">>),
    (<<"K">> :> <<"9", "2", "2", "3", "3", "7", "2", "0", "3", "6", "8", "5", "4", "7", "7", "5", "8", "0", "8", "n", "s", "9", "2", "2", "3", "3", "7", "2", "0", "3", "6", "8", "5", "4", "7", "7", "5", "8", "0", "8", "n", "s", "1", "s">>),
    (<<"K">> :> <<"1", "e", "3", "9">>),
    (<<"K">> :> <<"0", ".", "1">>),
    (<<"K">> :> <<"3", "4", "0", "2", "8", "2", "3", "5", "6", "7", "7", "9", "7", "3", "3", "6", "6", "1", "6", "3", "7", "5", "3", "9", "3", "9", "5", "4", "5", "8", "1", "4", "2", "5", "6", "8", "4", "4", "7">>),
    (<<"K">> :> <<"1", "m">>),
    (<<"K">> :> <<>> @@ <<"A", "P", "P", "_", "K">> :> <<"7">>),
    (<<"K">> :> <<"5">> @@ <<"A", "P", "P", "_", "K">> :> <<"7", "0", "0", "0", "0">>),
    (<<"K">> :> <<"4", "2", "9", "4", "9", "6", "7", "2", "9", "6">> @@ <<"L">> :> <<"1">>) }

InitUnmarshal ==
  /\ NoParser
  /\ NoMarshal
  /\ osenv \in ProcessEnvs
  /\ out = NoCall
  /\ \/ \E n \in 1..MaxFields : \E fs \in StructsOf(n) : target = NewStruct(fs)
     \/ \E fs \in StructsOf(1) : target = StructValue(fs)
     \/ target \in {NilPointer, NotAStruct}

NextUnmarshal ==
  \/ CallUnmarshal
  \/ UnmarshalIter
  \/ UnmarshalReturn
  \/ ConcurrentSetEnv
  \/ ConcurrentUnsetEnv

SpecUnmarshal == InitUnmarshal /\ [][NextUnmarshal]_vars

\* the options of the tag of field f as the claim reads them: required, and
\* a default literal if there is one
IsRequired(f) ==
  \E k \in 2..Len(Split(f.tag, ",")) :
    TrimSpace(Split(f.tag, ",")[k]) = <<"r", "e", "q", "u", "i", "r", "e", "d">>
DefaultParts(f) ==
  { k \in 2..Len(Split(f.tag, ",")) :
      HasPrefixAt(TrimSpace(Split(f.tag, ",")[k]), 0, DefaultPrefix) }
HasDefault(f) == DefaultParts(f) # {}
DefaultLiteral(f) ==
  LET part == TrimSpace(Split(f.tag, ",")[CHOOSE k \in DefaultParts(f) :
                                            \A j \in DefaultParts(f) : j <= k])
  IN  SubSeq(part, 9, Len(part))

\* the outcome p of a conversion as a value and whether it succeeded
convertedOf(p) == [val |-> p.val, ok |-> p.err = "none"]

\* the conversion of the text v to the type of a field of the given kind:
\* the value, and whether v converts within the type
Conversion(kind, v) ==
  IF kind \in IntKinds THEN
    LET p == ParseInt(v, KindBits(kind)) IN [val |-> p.val, ok |-> p.err = "none"]
  ELSE IF kind \in UintKinds THEN
    LET p == ParseUint(v, KindBits(kind)) IN [val |-> p.val, ok |-> p.err = "none"]
  ELSE IF kind \in FloatKinds THEN
    convertedOf(ParseFloat(v, KindBits(kind)))
  ELSE IF kind = "duration" THEN
    convertedOf(ParseDuration(v))
  ELSE IF kind = "bool" THEN
    LET p == ParseBool(v) IN [val |-> p.val, ok |-> p.ok]
  ELSE IF kind = "string" THEN [val |-> v, ok |-> TRUE]
  ELSE IF kind = "[]string" THEN
    [val |-> [i \in 1..Len(Split(v, ",")) |-> TrimSpace(Split(v, ",")[i])], ok |-> TRUE]
  ELSE [val |-> <<>>, ok |-> FALSE]

\* the key of field f under the prefix
KeyOf(f, prefix) == prefix \o Split(f.tag, ",")[1]

\* field f takes part in Unmarshal
Tagged(f) == f.exported /\ f.tag # <<>>

\* a step that is one turn of the loop of Unmarshal, for field out.i
UnmarshalTurn ==
  /\ pc = "unmarshal"
  /\ out.i <= Len(target.fields)
  /\ (pc' = "returned" \/ out'.i # out.i)

\* what the claim says about field f holding old: "fail", or the value the
\* field holds afterwards
Resolved(f, old, e, prefix, emptyDefaultCounts) ==
  LET k == KeyOf(f, prefix)
      text == IF k \in DOMAIN e THEN e[k] ELSE DefaultLiteral(f)
      c == Conversion(f.kind, text)
  IN  IF k \notin DOMAIN e /\ IsRequired(f) THEN [fail |-> TRUE, val |-> old]
      ELSE IF k \notin DOMAIN e
                /\ (~HasDefault(f) \/ (~emptyDefaultCounts /\ DefaultLiteral(f) = <<>>))
      THEN [fail |-> FALSE, val |-> old]
      ELSE [fail |-> ~c.ok, val |-> c.val]

\* C20: Unmarshal resolves each tagged field from the process environment:
\* a set variable is converted to the field's type and stored; an unset
\* variable of a required field fails with an error naming the (prefixed)
\* key; an unset variable with default=<literal> stores the converted
\* literal; otherwise the field is left unchanged; and a conversion that
\* fails is an error naming the key.
\* Checked turn by turn of the loop, against the environment of that turn:
\* a field without a tag is left alone, the turn of a field that fails
\* returns the error and stores nothing, any other turn stores the resolved
\* value; and the call returns nil when the loop ends.
C20_UnmarshalResolves ==
  [][ /\ UnmarshalTurn =>
           LET f == target.fields[out.i]
               res == Resolved(f, target.values[out.i], osenv, out.prefix, TRUE)
           IN  IF ~Tagged(f) THEN pc' = "unmarshal" /\ target' = target
               ELSE IF res.fail
               THEN /\ pc' = "returned"
                    /\ out'.err # NilError
                    /\ out'.err.key = KeyOf(f, out.prefix)
                    /\ target' = target
               ELSE /\ pc' = "unmarshal"
                    /\ target'.values = [target.values EXCEPT ![out.i] = res.val]
      /\ (pc = "unmarshal" /\ out.i > Len(target.fields)) => out'.err = NilError
    ]_vars


-----------------------------------------------------------------------------
(* C21: a field that is both required and has a default *)

\* field i of the struct t is tagged required with a non-empty default
\* literal, and its variable is not set in e
RequiredWithFallback(t, e, prefix, i) ==
  /\ Tagged(t.fields[i])
  /\ IsRequired(t.fields[i])
  /\ HasDefault(t.fields[i])
  /\ DefaultLiteral(t.fields[i]) # <<>>
  /\ KeyOf(t.fields[i], prefix) \notin DOMAIN e

\* C21: for a field tagged with both required and default=<literal>, when
\* the variable is not set Unmarshal uses the default literal as a fallback:
\* the call does not fail for the missing variable and the field holds the
\* converted literal.
\* Checked at the turn of the loop that resolves the field.
C21_RequiredFallsBack ==
  [][ (UnmarshalTurn /\ RequiredWithFallback(target, osenv, out.prefix, out.i)) =>
        /\ out'.err # RequiredMissing(KeyOf(target.fields[out.i], out.prefix))
        /\ target'.values[out.i]
             = Conversion(target.fields[out.i].kind,
                          DefaultLiteral(target.fields[out.i])).val
    ]_vars


-----------------------------------------------------------------------------
(* Marshal: a struct with env tags to a mapping of texts *)

\* strconv.FormatInt(v, 10)
FormatInt(v) == IF v.neg /\ v.mag # <<"0">> THEN <<"-">> \o v.mag ELSE v.mag

\* strconv.FormatUint(v, 10)
FormatUint(v) == v.mag

\* strconv.FormatBool(b)
FormatBool(b) ==
  IF b THEN <<"t", "r", "u", "e">> ELSE <<"f", "a", "l", "s", "e">>

\* digit i (0-based) of the digits d, zero outside them
DigitAt(d, i) == IF i >= 0 /\ i < Len(d) THEN d[i + 1] ELSE "0"

\* A decimal is its digits d without trailing zeros and the place dp of the
\* decimal point after the first dp of them (strconv's decimal)

\* the decimal of the digits N with the decimal point e places before
\* their end
decimalOf(N, e) == [d |-> DropTrailingZeros(N), dp |-> Len(N) - e]

\* the decimal of m * 2^e
DecimalOf(r) == decimalOf(BigToDec(binaryLimbs(r)), IF r.e < 0 THEN 0 - r.e ELSE 0)

\* decimal.RoundDown(nd): the first nd digits
RoundDown(x, nd) ==
  IF nd < 0 \/ nd >= Len(x.d) THEN x
  ELSE [d |-> DropTrailingZeros(SubSeq(x.d, 1, nd)),
        dp |-> IF DropTrailingZeros(SubSeq(x.d, 1, nd)) = <<>> THEN 0 ELSE x.dp]

\* decimal.RoundUp(nd): the first nd digits and one in the last place that
\* does not hold a nine
RoundUp(x, nd) ==
  IF nd < 0 \/ nd >= Len(x.d) THEN x
  ELSE IF \A i \in 1..nd : x.d[i] = "9" THEN [d |-> <<"1">>, dp |-> x.dp + 1]
  ELSE LET i == CHOOSE k \in 1..nd : x.d[k] # "9" /\ \A j \in (k + 1)..nd : x.d[j] = "9"
       IN  [d |-> SubSeq(x.d, 1, i - 1) \o <<DigitSeq[DigitVal(x.d[i]) + 2]>>, dp |-> x.dp]

\* shouldRoundUp(a, nd): the digits after the first nd are more than half
\* of the last place, or half of it after an odd digit
ShouldRoundUp(x, nd) ==
  IF nd < 0 \/ nd >= Len(x.d) THEN FALSE
  ELSE IF x.d[nd + 1] = "5" /\ nd + 1 = Len(x.d)
  THEN nd > 0 /\ DigitVal(x.d[nd]) % 2 # 0
  ELSE DigitVal(x.d[nd + 1]) >= 5

\* decimal.Round(nd)
RoundNearest(x, nd) == IF ShouldRoundUp(x, nd) THEN RoundUp(x, nd) ELSE RoundDown(x, nd)

\* the bounds of the numbers that are read back as the float64 m * 2^e:
\* half way to the next float above, and half way to the next float below,
\* which is nearer when m is the least mantissa of its exponent
UpperBound(r) == DecimalOf([m |-> BigAdd(BigMulSmall(r.m, 2), <<1>>), e |-> r.e - 1])
LowerBound(r) ==
  IF r.m = TimesPow(<<1>>, 2, 52) /\ r.e > LeastExp(64)
  THEN DecimalOf([m |-> BigSub(BigMulSmall(r.m, 4), <<1>>), e |-> r.e - 2])
  ELSE DecimalOf([m |-> BigSub(BigMulSmall(r.m, 2), <<1>>), e |-> r.e - 1])

\* the digits of the walk of roundShortest at step ui: the digit of the
\* upper bound, and the digits of d and of the lower bound in its column
UpperDigit(up, ui) == DigitVal(DigitAt(up.d, ui))
MiddleIndex(d, up, ui) == ui - up.dp + d.dp
MiddleDigit(d, up, ui) == DigitVal(DigitAt(d.d, MiddleIndex(d, up, ui)))
LowerIndex(lo, up, ui) == ui - up.dp + lo.dp
LowerDigit(lo, up, ui) == DigitVal(DigitAt(lo.d, LowerIndex(lo, up, ui)))

\* upperdelta after step ui: 0 while the digits of d and of the upper bound
\* are the same, 1 when they differ by one at the first difference and d
\* has nines and the bound zeros since, 2 otherwise
UpperDelta(d, up, ui) ==
  IF \A j \in 0..ui : MiddleDigit(d, up, j) = UpperDigit(up, j) THEN 0
  ELSE LET p == CHOOSE k \in 0..ui :
                  /\ MiddleDigit(d, up, k) # UpperDigit(up, k)
                  /\ \A j \in 0..(k - 1) : MiddleDigit(d, up, j) = UpperDigit(up, j)
       IN  IF \/ MiddleDigit(d, up, p) + 1 < UpperDigit(up, p)
              \/ \E j \in (p + 1)..ui : MiddleDigit(d, up, j) # 9 \/ UpperDigit(up, j) # 0
           THEN 2 ELSE 1

\* at step ui the digits of d may be cut, and may be rounded up
OkDown(d, lo, up, inclusive, ui) ==
  \/ LowerDigit(lo, up, ui) # MiddleDigit(d, up, ui)
  \/ inclusive /\ LowerIndex(lo, up, ui) + 1 = Len(lo.d)
OkUp(d, up, inclusive, ui) ==
  /\ UpperDelta(d, up, ui) > 0
  /\ inclusive \/ UpperDelta(d, up, ui) > 1 \/ ui + 1 < Len(up.d)

\* the steps of the walk: those whose column holds a digit of d or is
\* before its digits
WalkSteps(d, up) == { ui \in 0..(Len(d.d) + up.dp - d.dp) : MiddleIndex(d, up, ui) < Len(d.d) }

\* the decimal d rounded at the first step of the walk where it may be cut
\* or rounded up: to the nearest when it may be both
roundAt(d, lo, up, inclusive, ui) ==
  IF OkDown(d, lo, up, inclusive, ui) /\ OkUp(d, up, inclusive, ui)
  THEN RoundNearest(d, MiddleIndex(d, up, ui) + 1)
  ELSE IF OkDown(d, lo, up, inclusive, ui) THEN RoundDown(d, MiddleIndex(d, up, ui) + 1)
  ELSE RoundUp(d, MiddleIndex(d, up, ui) + 1)

walk(d, lo, up, inclusive, stops) ==
  IF stops = {} THEN d
  ELSE roundAt(d, lo, up, inclusive, CHOOSE ui \in stops : \A uj \in stops : ui <= uj)

\* the walk of roundShortest along the digits of d between its bounds
Walk(d, lo, up, inclusive) ==
  walk(d, lo, up, inclusive,
       { ui \in WalkSteps(d, up) : OkDown(d, lo, up, inclusive, ui) \/ OkUp(d, up, inclusive, ui) })

\* roundShortest leaves the digits of d = m * 2^e as they are when their
\* last place is worth as much as the last bit of m or more
AlreadyShortest(d, r) ==
  r.e > LeastExp(64) /\ 332 * (d.dp - Len(d.d)) >= 100 * r.e

\* strconv's roundShortest: the shortest decimal that is read back as the
\* float64 d = r
roundShortest(d, r) ==
  IF AlreadyShortest(d, r) THEN d
  ELSE Walk(d, LowerBound(r), UpperBound(r), ~IsOdd(r.m))

\* the shortest decimal that identifies the float64 v
Shortest(v) ==
  roundShortest([d |-> v.digits, dp |-> v.exp + 1],
                RoundRatio(DecimalNum(v.digits, v.exp), DecimalDen(v.digits, v.exp),
                           53, -1074))

\* the digits d with the decimal point after dp of them, as 'g' prints them:
\* with an exponent when it is below -4 or at least 6 (%e), as a plain
\* decimal otherwise (%f)
FormatDigits(neg, d, dp) ==
  LET nd == Len(d)
      x == dp - 1
      sign == IF neg THEN <<"-">> ELSE <<>>
      ax == IF x < 0 THEN 0 - x ELSE x
      fmtE == <<DigitAt(d, 0)>>
                \o (IF nd > 1 THEN <<".">> \o SubSeq(d, 2, nd) ELSE <<>>)
                \o <<"e", IF x < 0 THEN "-" ELSE "+">>
                \o (IF ax < 10 THEN <<"0">> ELSE <<>>) \o NatToDec(ax)
      prec == IF nd - dp > 0 THEN nd - dp ELSE 0
      fmtF == (IF dp > 0 THEN [i \in 1..dp |-> DigitAt(d, i - 1)] ELSE <<"0">>)
                \o (IF prec > 0
                    THEN <<".">> \o [i \in 1..prec |-> DigitAt(d, dp + i - 1)]
                    ELSE <<>>)
  IN  sign \o (IF x < -4 \/ x >= 6 THEN fmtE ELSE fmtF)

formatShortest(neg, c) == FormatDigits(neg, c.d, c.dp)

\* strconv.FormatFloat(v, 'g', -1, 64): the shortest digits that are read
\* back as v
FormatFloat(v) ==
  IF v.class = "nan" THEN <<"N", "a", "N">>
  ELSE IF v.class = "inf"
  THEN (IF v.neg THEN <<"-">> ELSE <<"+">>) \o <<"I", "n", "f">>
  ELSE IF v.digits = <<>> THEN FormatDigits(v.neg, <<>>, 0)
  ELSE formatShortest(v.neg, Shortest(v))

RECURSIVE DivSmall(_, _, _)
\* the digits a divided by the small number k, rem being the remainder
\* carried in: the quotient digits (as many as a has) and the remainder
DivSmall(a, k, rem) ==
  IF a = <<>> THEN [q |-> <<>>, r |-> rem]
  ELSE LET n == rem * 10 + DigitVal(a[1])
           rest == DivSmall(Tail(a), k, n % k)
       IN  [q |-> <<DigitSeq[(n \div k) + 1]>> \o rest.q, r |-> rest.r]

\* fmtFrac(buf, v, prec) and fmtInt of what is left: v / 10^prec written
\* with its fraction, trailing zeros and a zero fraction left out
FmtFrac(u, prec) ==
  LET padded == Zeros(prec + 1 - Len(u)) \o u
      n == Len(padded)
      frac == DropTrailingZeros(SubSeq(padded, n - prec + 1, n))
  IN  [int |-> StripZeros(SubSeq(padded, 1, n - prec)),
       frac |-> IF frac = <<>> THEN <<>> ELSE <<".">> \o frac]

\* Duration.String() of the count v of nanoseconds
DurationString(v) ==
  LET u == v.mag
      sign == IF v.neg /\ u # <<"0">> THEN <<"-">> ELSE <<>>
  IN  IF u = <<"0">> THEN <<"0", "s">>
      ELSE IF Len(u) <= 3 THEN sign \o u \o <<"n", "s">>
      ELSE IF Len(u) <= 6
      THEN LET f == FmtFrac(u, 3) IN sign \o f.int \o f.frac \o <<MicroSign, "s">>
      ELSE IF Len(u) <= 9
      THEN LET f == FmtFrac(u, 6) IN sign \o f.int \o f.frac \o <<"m", "s">>
      ELSE LET f == FmtFrac(u, 9)
               bySec == DivSmall(f.int, 60, 0)
               mins == StripZeros(bySec.q)
               byMin == DivSmall(mins, 60, 0)
               hours == StripZeros(byMin.q)
           IN  sign
                 \o (IF hours # <<"0">> THEN hours \o <<"h">> ELSE <<>>)
                 \o (IF mins # <<"0">> THEN NatToDec(byMin.r) \o <<"m">> ELSE <<>>)
                 \o NatToDec(bySec.r) \o f.frac \o <<"s">>

RECURSIVE JoinWith(_, _)
\* strings.Join(parts, sep)
JoinWith(parts, sep) ==
  IF parts = <<>> THEN <<>>
  ELSE IF Len(parts) = 1 THEN parts[1]
  ELSE parts[1] \o sep \o JoinWith(Tail(parts), sep)

\* fieldToString(field) for a field of the given kind holding v: the text
\* and whether the kind is supported.  A float32 field is widened by
\* field.Float() before it is formatted; the digits of the widened value are
\* those of v when v is exactly a float32
fieldToString(kind, v) ==
  IF kind = "string" THEN [s |-> v, ok |-> TRUE]
  ELSE IF kind = "duration" THEN [s |-> DurationString(v), ok |-> TRUE]
  ELSE IF kind \in IntKinds THEN [s |-> FormatInt(v), ok |-> TRUE]
  ELSE IF kind \in UintKinds THEN [s |-> FormatUint(v), ok |-> TRUE]
  ELSE IF kind \in FloatKinds THEN [s |-> FormatFloat(v), ok |-> TRUE]
  ELSE IF kind = "bool" THEN [s |-> FormatBool(v), ok |-> TRUE]
  ELSE IF kind = "[]string" THEN [s |-> JoinWith(v, <<",">>), ok |-> TRUE]
  ELSE [s |-> <<>>, ok |-> FALSE]

\* the errors of Marshal: for field i, and for a source that is a nil
\* pointer or no struct
MarshalFailed(i) == [what |-> "marshal", key |-> <<>>, field |-> i]
NilSource == [what |-> "marshal source cannot be nil pointer", key |-> <<>>]
NotStruct == [what |-> "marshal source must be a struct or pointer to struct", key |-> <<>>]

RECURSIVE MarshalFields(_, _, _, _, _)
\* what MarshalWithPrefix does with the outcome f of fieldToString for
\* field i: an unsupported kind ends the loop with an error, an empty text
\* adds no entry, any other text is stored under envKey
marshalField(fs, vals, i, m, prefix, envKey, f) ==
  IF ~f.ok THEN [env |-> EmptyEnv, nil |-> TRUE, err |-> MarshalFailed(i)]
  ELSE MarshalFields(fs, vals, i + 1,
                     IF f.s # <<>> THEN Put(m, envKey, f.s) ELSE m, prefix)


\* the loop of MarshalWithPrefix from field i on, m being the map so far
MarshalFields(fs, vals, i, m, prefix) ==
  IF i > Len(fs) THEN [env |-> m, nil |-> FALSE, err |-> NilError]
  ELSE IF ~fs[i].exported \/ fs[i].tag = <<>>
  THEN MarshalFields(fs, vals, i + 1, m, prefix)
  ELSE marshalField(fs, vals, i, m, prefix, prefix \o Split(fs[i].tag, ",")[1],
                    fieldToString(fs[i].kind, vals[i]))

\* MarshalWithPrefix(v, prefix): a nil pointer and an argument that is no
\* struct are refused, the fields of a struct or of the struct pointed to
\* are read
MarshalWithPrefix(t, prefix) ==
  IF t.shape = "nil pointer" THEN [env |-> EmptyEnv, nil |-> TRUE, err |-> NilSource]
  ELSE IF t.shape \notin {"pointer", "struct"}
  THEN [env |-> EmptyEnv, nil |-> TRUE, err |-> NotStruct]
  ELSE MarshalFields(t.fields, t.values, 1, EmptyEnv, prefix)

\* Marshal(&t)
Marshal(t) == MarshalWithPrefix(t, <<>>)

\* a call of Marshal or MarshalWithPrefix on source
CallMarshal ==
  /\ pc = "call"
  /\ source # <<>>
  /\ \E prefix \in Prefixes :
       LET r == IF prefix = <<>> THEN Marshal(source) ELSE MarshalWithPrefix(source, prefix)
       IN  out' = [fn |-> "Marshal", prefix |-> prefix, env |-> r.env,
                   nil |-> r.nil, err |-> r.err]
  /\ pc' = "marshalled"
  /\ UNCHANGED <<content, pos, line, col, env, result, ret, input, file, osenv,
                 target, source, pending>>


-----------------------------------------------------------------------------
(* SpecMarshal: Marshal over structs of a few tagged fields *)

MaxMarshalFields == 2

\* the fields the marshalled structs are made of, holding zero and non-zero
\* values of each kind
MarshalChoices ==
  { [kind |-> "string", tag |-> <<"K">>, exported |-> TRUE, value |-> <<>>],
    [kind |-> "string", tag |-> <<"K">>, exported |-> TRUE, value |-> <<"p", SP, "q">>],
    [kind |-> "int", tag |-> <<"L">>, exported |-> TRUE, value |-> ZeroInt],
    [kind |-> "int", tag |-> <<"L">>, exported |-> TRUE, value |-> IntVal(FALSE, <<"5">>)],
    [kind |-> "int8", tag |-> <<"K">>, exported |-> TRUE, value |-> IntVal(TRUE, <<"3">>)],
    [kind |-> "uint16", tag |-> <<"K">>, exported |-> TRUE, value |-> ZeroInt],
    [kind |-> "uint", tag |-> <<"L">>, exported |-> TRUE, value |-> IntVal(FALSE, <<"7", "0", "0", "0", "0">>)],
    [kind |-> "bool", tag |-> <<"K">>, exported |-> TRUE, value |-> FALSE],
    [kind |-> "bool", tag |-> <<"L">>, exported |-> TRUE, value |-> TRUE],
    [kind |-> "duration", tag |-> <<"K">>, exported |-> TRUE, value |-> ZeroInt],
    [kind |-> "duration", tag |-> <<"L">>, exported |-> TRUE, value |-> IntVal(FALSE, <<"9", "0", "5", "0", "0", "0", "0", "0", "0", "0", "0">>)],
    [kind |-> "float64", tag |-> <<"K">>, exported |-> TRUE, value |-> ZeroFloat],
    [kind |-> "float64", tag |-> <<"L">>, exported |-> TRUE, value |-> FloatVal("finite", FALSE, <<"2", "5">>, 0)],
    [kind |-> "float32", tag |-> <<"K">>, exported |-> TRUE, value |-> FloatVal("finite", TRUE, <<"1", "5">>, 6)],
    [kind |-> "[]string", tag |-> <<"K">>, exported |-> TRUE, value |-> <<>>],
    [kind |-> "[]string", tag |-> <<"L">>, exported |-> TRUE, value |-> <<<<"a">>, <<"b">>>>],
    [kind |-> "[]string", tag |-> <<"K">>, exported |-> TRUE, value |-> <<<<>>>>],
    [kind |-> "[]int", tag |-> <<"K">>, exported |-> TRUE, value |-> <<>>],
    [kind |-> "string", tag |-> <<>>, exported |-> TRUE, value |-> <<"p">>],
    [kind |-> "string", tag |-> <<"K">>, exported |-> FALSE, value |-> <<"p">>] }

RECURSIVE MarshalStructsOf(_)
\* the structs of n of these fields
MarshalStructsOf(n) ==
  IF n = 0 THEN {<<>>}
  ELSE { Append(s, f) : s \in MarshalStructsOf(n - 1), f \in MarshalChoices }

InitMarshal ==
  /\ NoParser
  /\ osenv = EmptyEnv
  /\ out = NoCall
  /\ target = <<>>
  /\ pending = {}
  /\ \/ \E n \in 1..MaxMarshalFields : \E fs \in MarshalStructsOf(n) :
          source \in {NewStruct(fs), StructValue(fs)}
     \/ source \in {NilPointer, NotAStruct}

NextMarshal == CallMarshal

SpecMarshal == InitMarshal /\ [][NextMarshal]_vars

\* v is the zero value of the kind: 0, false, the empty string, the empty
\* slice, the zero duration
IsZeroValue(kind, v) ==
  IF kind \in IntKinds \cup UintKinds \cup {"duration"} THEN v.mag = <<"0">>
  ELSE IF kind \in FloatKinds THEN v.class = "finite" /\ v.digits = <<>>
  ELSE IF kind = "bool" THEN v = FALSE
  ELSE v = <<>>

\* field i of the struct t is tagged and no other tagged field has its key
OwnKey(t, i) ==
  /\ Tagged(t.fields[i])
  /\ \A j \in 1..Len(t.fields) :
       (j # i /\ Tagged(t.fields[j])) => KeyOf(t.fields[j], <<>>) # KeyOf(t.fields[i], <<>>)

\* C22: Marshal includes a tagged field in the output map only when the
\* field holds a non-zero value: after a Marshal that succeeds, the key of a
\* tagged field is in the map exactly when the field does not hold the zero
\* value of its type.
C22_OnlyNonZero ==
  [][ (pc = "call" /\ out'.fn = "Marshal" /\ out'.err = NilError) =>
        \A i \in 1..Len(source.fields) :
          OwnKey(source, i) =>
            (KeyOf(source.fields[i], out'.prefix) \in DOMAIN out'.env
               <=> ~IsZeroValue(source.fields[i].kind, source.values[i]))
    ]_vars


-----------------------------------------------------------------------------
(* SpecSort: WriteEnvFile over mappings of several keys *)

MaxSortKeys == 3

\* keys that are prefixes of one another, differ in case, or hold an
\* underscore or a digit
SortKeys ==
  { <<"A">>, <<"B">>, <<"A", "B">>, <<"a">>, <<"A", "_">>, <<"A", "1">>, <<"_">> }

SortValues == { <<"x">>, <<"a", " ", "b">> }

SortMaps ==
  UNION { [ks -> SortValues] :
            ks \in { S \in SUBSET SortKeys : Cardinality(S) <= MaxSortKeys } }

InitSort ==
  /\ input \in SortMaps
  /\ file = <<>>
  /\ NoProcess
  /\ content = <<>>
  /\ pos = NewTokenizer.pos
  /\ line = NewTokenizer.line
  /\ col = NewTokenizer.col
  /\ env = EmptyEnv
  /\ result = NoResult
  /\ ret = NotReturned
  /\ pc = "write"

SpecSort == InitSort /\ [][NextWrite]_vars

\* a < b in byte-wise order: at the first place where they differ a has
\* ended or holds the smaller byte
BytesLess(a, b) ==
  \E i \in 1..Len(b) :
    /\ i <= Len(a) + 1
    /\ \A j \in 1..(i - 1) : a[j] = b[j]
    /\ (i = Len(a) + 1 \/ CodeOf(a[i]) < CodeOf(b[i]))

\* the keys of m in ascending byte-wise order
Ascending(m) ==
  CHOOSE ks \in IterationOrders(m) :
    \A i \in 1..(Len(ks) - 1) : BytesLess(ks[i], ks[i + 1])

RECURSIVE LinesOf(_, _)
\* one line KEY=value, ended by a line feed, for each key of ks in turn
LinesOf(m, ks) ==
  IF ks = <<>> THEN <<>>
  ELSE envLine(m, ks[1]) \o <<LF>> \o LinesOf(m, Tail(ks))

\* C23: WriteEnvFile emits exactly one KEY=value line per entry of the map,
\* in ascending byte-wise order of the keys, whatever order the map is
\* iterated in.
C23_SortedLines ==
  [][ pc = "write" =>
        /\ file' = LinesOf(input, Ascending(input))
        /\ Cardinality({ i \in 1..Len(file') : file'[i] = LF }) = Cardinality(DOMAIN input)
    ]_vars

\* a mapping of three keys has been written
C23_Witness ==
  /\ pc = "written"
  /\ Cardinality(DOMAIN input) = 3
  /\ {<<"a">>, <<"A", "B">>} \subseteq DOMAIN input


-----------------------------------------------------------------------------
(* Apply: the pairs of a mapping are set in the process environment *)

\* what Apply does with the outcome s of os.Setenv for key
applyPair(key, s) ==
  IF s.ok
  THEN /\ osenv' = s.env
       /\ pending' = pending \ {key}
       /\ UNCHANGED <<out, pc>>
  ELSE /\ out' = [fn |-> "Apply", err |-> SetFailed(key)]
       /\ pc' = "failed"
       /\ UNCHANGED <<osenv, pending>>

\* one turn of the range loop of Apply(input): a key not yet visited, in
\* whatever order the map yields it
ApplyIter ==
  /\ pc = "apply"
  /\ \E key \in pending : applyPair(key, Setenv(osenv, key, input[key]))
  /\ UNCHANGED <<content, pos, line, col, env, result, ret, input, file, target, source>>

\* the range loop of Apply is over: Apply returns nil
ApplyReturn ==
  /\ pc = "apply"
  /\ pending = {}
  /\ out' = [fn |-> "Apply", err |-> NilError]
  /\ pc' = "applied"
  /\ UNCHANGED <<content, pos, line, col, env, result, ret, input, file, osenv,
                 target, source, pending>>

-----------------------------------------------------------------------------
(* SpecApply: Apply over mappings with valid and invalid names *)

MaxApplyKeys == 3

ApplyKeys == { <<"A">>, <<"B">>, <<>>, <<"A", EQ, "B">> }

ApplyMaps ==
  UNION { [ks -> {<<"x">>, <<>>}] :
            ks \in { S \in SUBSET ApplyKeys : Cardinality(S) <= MaxApplyKeys } }

InitApply ==
  /\ content = <<>>
  /\ pos = NewTokenizer.pos
  /\ line = NewTokenizer.line
  /\ col = NewTokenizer.col
  /\ env = EmptyEnv
  /\ result = NoResult
  /\ ret = NotReturned
  /\ file = <<>>
  /\ input \in ApplyMaps
  /\ pending = DOMAIN input
  /\ osenv \in {EmptyEnv, (<<"A">> :> <<"o">>), (<<"B">> :> <<"x">> @@ <<"C">> :> <<"o">>)}
  /\ out = NoCall
  /\ target = <<>>
  /\ source = <<>>
  /\ pc = "apply"

NextApply == ApplyIter \/ ApplyReturn

SpecApply == InitApply /\ [][NextApply]_vars

\* a name the process environment refuses
InvalidName(k) == k = <<>> \/ \E i \in 1..Len(k) : k[i] = EQ

\* the environment e with the one pair k = v set and nothing else changed
WithPair(e, k, v) == [x \in DOMAIN e \cup {k} |-> IF x = k THEN v ELSE e[x]]

\* C24: Apply sets the pairs of the mapping one at a time; when setting a
\* pair fails it returns an error for that key immediately, the pairs
\* already set remain set and the remaining pairs are not set; when no set
\* fails every pair of the mapping is in the environment afterwards.
C24_ApplyNoRollback ==
  [][ pc = "apply" =>
        \/ \E k \in pending :
             /\ ~InvalidName(k)
             /\ osenv' = WithPair(osenv, k, input[k])
             /\ pending' = pending \ {k}
             /\ pc' = "apply"
        \/ \E k \in pending :
             /\ InvalidName(k)
             /\ pc' = "failed"
             /\ out'.err = SetFailed(k)
             /\ osenv' = osenv
             /\ \A j \in DOMAIN input \ pending : osenv'[j] = input[j]
        \/ /\ pending = {}
           /\ pc' = "applied"
           /\ out'.err = NilError
           /\ osenv' = osenv
           /\ \A j \in DOMAIN input : j \in DOMAIN osenv' /\ osenv'[j] = input[j]
    ]_vars

\* Apply has failed after it set one pair and before it reached another
C24_Witness ==
  /\ pc = "failed"
  /\ out.err = SetFailed(<<>>)
  /\ <<"A">> \in DOMAIN input \ pending
  /\ <<"B">> \in pending
  /\ <<"B">> \notin DOMAIN osenv


-----------------------------------------------------------------------------
(* SpecRoundTrip: a struct is marshalled, the pairs are applied to the      *)
(* process environment, and a zero struct of the same type is unmarshalled *)

\* Apply(out.env) is called with the mapping Marshal returned
CallApply ==
  /\ pc = "marshalled"
  /\ out.err = NilError
  /\ input' = out.env
  /\ pending' = DOMAIN out.env
  /\ pc' = "apply"
  /\ UNCHANGED <<content, pos, line, col, env, result, ret, file, osenv, out,
                 target, source>>

MaxRoundTripFields == 2

\* fields of every supported kind with a plain tag
RoundTripChoices ==
  { [kind |-> "string", tag |-> <<"K">>, exported |-> TRUE, value |-> <<>>],
    [kind |-> "string", tag |-> <<"K">>, exported |-> TRUE, value |-> <<"p", SP, "q">>],
    [kind |-> "string", tag |-> <<"L">>, exported |-> TRUE, value |-> <<SP, "a", ",", "b", TAB>>],
    [kind |-> "int", tag |-> <<"L">>, exported |-> TRUE, value |-> ZeroInt],
    [kind |-> "int8", tag |-> <<"K">>, exported |-> TRUE, value |-> IntVal(TRUE, <<"3">>)],
    [kind |-> "int64", tag |-> <<"L">>, exported |-> TRUE, value |-> IntVal(TRUE, <<"9", "2", "2", "3", "3", "7", "2", "0", "3", "6", "8", "5", "4", "7", "7", "5", "8", "0", "8">>)],
    [kind |-> "uint", tag |-> <<"L">>, exported |-> TRUE, value |-> IntVal(FALSE, <<"7", "0", "0", "0", "0">>)],
    [kind |-> "bool", tag |-> <<"K">>, exported |-> TRUE, value |-> FALSE],
    [kind |-> "bool", tag |-> <<"L">>, exported |-> TRUE, value |-> TRUE],
    [kind |-> "duration", tag |-> <<"K">>, exported |-> TRUE, value |-> IntVal(FALSE, <<"1", "5", "0", "0">>)],
    [kind |-> "duration", tag |-> <<"L">>, exported |-> TRUE, value |-> IntVal(TRUE, <<"9", "0", "5", "0", "0", "0", "0", "0", "0", "0", "0">>)],
    [kind |-> "float64", tag |-> <<"K">>, exported |-> TRUE, value |-> ZeroFloat],
    [kind |-> "float64", tag |-> <<"L">>, exported |-> TRUE, value |-> ParseFloat(<<"2", ".", "5", "e", "-", "5">>, 64).val],
    [kind |-> "float32", tag |-> <<"K">>, exported |-> TRUE, value |-> FloatVal("finite", TRUE, <<"1", "5">>, 6)],
    [kind |-> "float32", tag |-> <<"L">>, exported |-> TRUE, value |-> ParseFloat(<<"0", ".", "1">>, 32).val],
    [kind |-> "[]string", tag |-> <<"K">>, exported |-> TRUE, value |-> <<>>],
    [kind |-> "[]string", tag |-> <<"L">>, exported |-> TRUE, value |-> <<<<"a">>, <<"b">>>>],
    [kind |-> "[]string", tag |-> <<"K">>, exported |-> TRUE, value |-> <<<<"a", ",", "b">>>>],
    [kind |-> "[]string", tag |-> <<"L">>, exported |-> TRUE, value |-> <<<<SP, "a">>>>],
    [kind |-> "[]string", tag |-> <<"K">>, exported |-> TRUE, value |-> <<<<>>>>] }

RECURSIVE RoundTripStructsOf(_)
\* the structs of n of these fields
RoundTripStructsOf(n) ==
  IF n = 0 THEN {<<>>}
  ELSE { Append(s, f) : s \in RoundTripStructsOf(n - 1), f \in RoundTripChoices }

\* the zero value of a kind
ZeroValue(kind) ==
  IF kind \in IntKinds \cup UintKinds \cup {"duration"} THEN ZeroInt
  ELSE IF kind \in FloatKinds THEN ZeroFloat
  ELSE IF kind = "bool" THEN FALSE
  ELSE <<>>

\* var restored T: the zero struct of the type of t
ZeroStruct(t) ==
  [shape |-> t.shape,
   fields |-> t.fields,
   values |-> [i \in 1..Len(t.fields) |-> ZeroValue(t.fields[i].kind)]]

InitRoundTrip ==
  /\ NoParser
  /\ osenv = EmptyEnv
  /\ out = NoCall
  /\ pending = {}
  /\ \E n \in 1..MaxRoundTripFields : \E fs \in RoundTripStructsOf(n) :
       /\ source = NewStruct(fs)
       /\ target = ZeroStruct(NewStruct(fs))

NextRoundTrip ==
  \/ CallMarshal
  \/ CallApply
  \/ ApplyIter
  \/ ApplyReturn
  \/ CallUnmarshal
  \/ UnmarshalIter
  \/ UnmarshalReturn

SpecRoundTrip == InitRoundTrip /\ [][NextRoundTrip]_vars

\* the tagged fields of t have keys of their own
DistinctKeys(t) == \A i \in 1..Len(t.fields) : Tagged(t.fields[i]) => OwnKey(t, i)

\* the environment holds exactly the pairs that marshalling source with
\* the prefix gave, and Unmarshal, called with the same prefix on target,
\* has returned
RoundTripDone(prefix) ==
  /\ pc = "returned"
  /\ out.fn = "Unmarshal"
  /\ out.prefix = prefix
  /\ DistinctKeys(source)
  /\ MarshalWithPrefix(source, prefix).err = NilError
  /\ osenv = MarshalWithPrefix(source, prefix).env

\* C25: Marshal/Unmarshal round trip: for every value of a struct whose
\* tagged fields have supported types, marshalling it to a map, setting
\* exactly those pairs in the environment, and unmarshalling into a zero
\* struct restores every tagged field to its original value.
C25_MarshalRoundTrip ==
  \A prefix \in Prefixes :
    RoundTripDone(prefix) =>
      /\ out.err = NilError
      /\ \A i \in 1..Len(source.fields) :
           Tagged(source.fields[i]) => target.values[i] = source.values[i]


-----------------------------------------------------------------------------
(* SpecScan: Parse over documents with export prefixes, values that span   *)
(* lines, carriage returns and errors                                      *)

MaxScanLines == 3

ScanLines ==
  { <<>>,
    <<"#", "c">>,
    <<SP, TAB>>,
    <<"A", "=", "x">>,
    <<"A", "=", SQ, "x", LF, "y", SQ>>,
    <<"A", "=", DQ, "x", BSL, LF, "y", DQ>>,
    <<"e", "x", "p", "o", "r", "t", SP, "B", "=", "x">>,
    <<"e", "x", "p", "o", "r", "t", SP, SP, TAB, "B", "=", DQ, "y", DQ, SP, "#", "c">>,
    <<"A", "=", "x", CR>>,
    <<"A">>,
    <<"A", "=", DQ, "x">>,
    <<"e", "x", "p", "o", "r", "t", SP, "1">> }

InitScan ==
  /\ \E d \in DocsOf(ScanLines, MaxScanLines) : NewParser(d)
  /\ input = EmptyEnv
  /\ file = <<>>
  /\ NoProcess

SpecScan == InitScan /\ [][Next]_vars

\* the scanner state t describes offset t.pos of the text c: the offset is
\* within the text, the line is 1 plus the line feeds before it, and the
\* column is 1 plus the bytes before it since the last of them
Describes(c, t) ==
  LET feeds == { i \in 1..t.pos : c[i] = LF }
      last == IF feeds = {} THEN 0 ELSE CHOOSE i \in feeds : \A j \in feeds : j <= i
  IN  /\ 0 <= t.pos
      /\ t.pos <= Len(c)
      /\ t.line = 1 + Cardinality(feeds)
      /\ t.col = 1 + (t.pos - last)

\* the scanner state of the current state
Scanner == [pos |-> pos, line |-> line, col |-> col]

\* the statement that ParseLine is about to read starts with the export
\* prefix, leading white space skipped
AtExport ==
  /\ pc = "parse"
  /\ pos < Len(content)
  /\ HasPrefixAt(content, skipWhitespace(content, Scanner).pos, ExportPrefix)

\* C26: scanner invariant: in every state reachable during Parse
\* 0 <= pos <= length, line is 1 plus the number of line feeds in
\* content[0..pos) and col is 1 plus the number of bytes after the last of
\* them; pos never decreases between steps; and the state ParseLine is in
\* after it skipped an export prefix satisfies the same.
C26_ScannerInvariant ==
  [][ /\ Describes(content, Scanner)
      /\ Describes(content', [pos |-> pos', line |-> line', col |-> col'])
      /\ pos' >= pos
      /\ AtExport =>
           LET t2 == skipExport(content, skipWhitespace(content, Scanner))
           IN  Describes(content, t2) /\ t2.pos >= pos + 7 /\ pos' >= t2.pos
    ]_vars

\* Parse has read an export statement on the third physical line to its end
C26_Witness ==
  /\ pos = Len(content)
  /\ line = 3
  /\ col > 8
  /\ HasPrefixAt(content, pos - (col - 1), ExportPrefix)
  /\ result.Key = <<"B">>


-----------------------------------------------------------------------------
(* SpecTrail: Parse over documents with text after a value on its line *)

MaxTrailLines == 2

TrailLines ==
  { <<"A", "=", DQ, "x", DQ>>,
    <<"A", "=", DQ, "x", DQ, SP, "B", "=", "y">>,
    <<"A", "=", SQ, "x", SQ, "B", "=", "y">>,
    <<"A", "=", DQ, "x", DQ, SP, "#", "c">>,
    <<"A", "=", "x", SP, "y">>,
    <<"A", "=", "x", SP, "#", "c">>,
    <<"A", "=", DQ, "x", DQ, CR>>,
    <<"B", "=", "y">>,
    <<"A", "=", DQ, "x", DQ, SP, TAB>>,
    <<"e", "x", "p", "o", "r", "t", SP, "A", "=", SQ, "x", SQ, SP, "e", "x", "p", "o", "r", "t", SP, "B", "=", "y">>,
    <<"A", "=", DQ, "x", DQ, "y">> }

InitTrail ==
  /\ \E d \in DocsOf(TrailLines, MaxTrailLines) : NewParser(d)
  /\ input = EmptyEnv
  /\ file = <<>>
  /\ NoProcess

SpecTrail == InitTrail /\ [][Next]_vars

\* nothing of the physical line that ends at or after offset p of c is left
\* to read from p but spaces, tabs and the line terminator: either the line
\* feed was the last byte read, or the bytes up to the next line feed are
\* spaces, tabs or a carriage return
LineIsRead(c, p) ==
  \/ p > 0 /\ c[p] = LF
  \/ \A i \in p..(NextOf(c, p, {LF}) - 1) : c[i + 1] \in {SP, TAB, CR}

\* C27: one ParseLine call parses exactly one logical line: when it returns
\* an entry without error, the only unread bytes left on that physical line
\* are spaces, tabs or its line terminator (so text that follows a closing
\* quote on the same line is never parsed as a further statement).
C27_OneLinePerCall ==
  [][ (pc = "parse" /\ pos < Len(content)
         /\ result'.Error.kind = "none" /\ result'.Key # <<>>)
        => LineIsRead(content, pos')
    ]_vars


-----------------------------------------------------------------------------
(* SpecKey: Parse over documents with well-formed, ill-formed and missing   *)
(* keys                                                                    *)

MaxKeyLines == 2

KeyLines ==
  { <<"A", "=", "x">>,
    <<"_", "a", "1", "=", "x">>,
    <<"a", "_", "B", "2", SP, "=", SP, "y">>,
    <<"1", "=", "x">>,
    <<"=", "x">>,
    <<SP, "=", "x">>,
    <<"e", "x", "p", "o", "r", "t", SP, "=", "x">>,
    <<"e", "x", "p", "o", "r", "t", SP, SP, "_", "=", "x">>,
    <<"-", "A", "=", "x">>,
    <<"A", "-", "B", "=", "x">>,
    <<"A", ".", "B", "=", "x">>,
    <<"A", "1">>,
    <<"e", "x", "p", "o", "r", "t", "=", "x">>,
    <<"A", SP, "B", "=", "x">>,
    <<"e", "x", "p", "o", "r", "t">> }

InitKey ==
  /\ \E d \in DocsOf(KeyLines, MaxKeyLines) : NewParser(d)
  /\ input = EmptyEnv
  /\ file = <<>>
  /\ NoProcess

SpecKey == InitKey /\ [][Next]_vars

\* k is a letter or underscore followed by letters, digits or underscores
IsIdentifier(k) ==
  /\ Len(k) >= 1
  /\ k[1] \in Upper \cup Lower \cup {"_"}
  /\ \A i \in 1..Len(k) : k[i] \in Upper \cup Lower \cup Digit \cup {"_"}

\* C28: the `expected variable name` (MissingVariableName) error is
\* unreachable: parseKey either returns an error or returns a key of length
\* at least 1, so no ParseLine result and no return of Parse carries that
\* error, and every entry inserted by Parse has a key that is a letter or
\* underscore followed by letters, digits or underscores.
C28_KeyNeverEmpty ==
  /\ result.Error.kind # "MissingVariableName"
  /\ ret.err.kind # "MissingVariableName"
  /\ \A k \in DOMAIN env : IsIdentifier(k)
  /\ result.Error.kind = "none" => (result.Key = <<>> \/ IsIdentifier(result.Key))
  /\ (pc = "parse" /\ pos < Len(content)) =>
       LET t1 == skipWhitespace(content, Scanner)
           k == parseKey(content, skipExport(content, t1))
       IN  ~isBlankOrComment(content, t1) => (k.err.kind # "none" \/ Len(k.key) >= 1)

\* Parse stored an entry and then failed where a key was missing before "="
C28_Witness ==
  /\ pc = "error"
  /\ ret.err.kind = "InvalidKey"
  /\ ByteAt(content, pos) = EQ
  /\ result.Error.kind = "InvalidKey"
  /\ DOMAIN env = {<<"_", "a", "1">>}


-----------------------------------------------------------------------------
(* SpecCRLF: Parse over documents whose line feeds are then written as     *)
(* carriage return, line feed                                              *)

RECURSIVE ParseFrom(_, _, _)
\* what an iteration of Parse does with the outcome p of ParseLine, m being
\* the mapping built so far
parseStep(c, m, p) ==
  IF p.res.Error.kind # "none" THEN ErrorReturn(m, p.res.Error)
  ELSE ParseFrom(c, p.t, Store(m, p.res))

\* the loop of Parse from the scanner state t on
ParseFrom(c, t, m) ==
  IF t.pos >= Len(c) THEN [returned |-> TRUE, nil |-> FALSE, env |-> m, err |-> NoError]
  ELSE parseStep(c, m, ParseLine(c, t))

\* NewParser(c).Parse()
Parse(c) == ParseFrom(c, NewTokenizer, EmptyEnv)

MaxCRLFLines == 3

CRLFLines ==
  { <<>>,
    <<SP>>,
    <<"#", "c">>,
    <<"A", "=", "x">>,
    <<"A", "=", "x", SP, "y", SP, TAB>>,
    <<"A", "=">>,
    <<"B", "=", DQ, "y", SP, "z", DQ>>,
    <<"B", "=", SQ, "q", SQ, SP>>,
    <<"e", "x", "p", "o", "r", "t", SP, "A", "=", "$", "B">>,
    <<"A", "=", "x", SP, "#", "c">>,
    <<"B", "=", "x", CR>>,
    <<"A", "=", SQ, "x", LF, "y", SQ>>,
    <<"A">> }

InitCRLF ==
  /\ \E d \in DocsOf(CRLFLines, MaxCRLFLines) : NewParser(d)
  /\ input = EmptyEnv
  /\ file = <<>>
  /\ NoProcess

SpecCRLF == InitCRLF /\ [][Next]_vars

\* c with every line feed written as carriage return, line feed
ToCRLF(c) == ReplaceAll(c, LF, <<CR, LF>>)

RECURSIVE QuotedFeed(_, _)
\* some statement of c read from the scanner state t on holds a line feed
\* inside its value: the ParseLine call that returns its entry reads a line
\* feed that is not the last byte it reads
QuotedFeed(c, t) ==
  IF t.pos >= Len(c) THEN FALSE
  ELSE \E p \in {ParseLine(c, t)} :
         /\ p.res.Error.kind = "none"
         /\ \/ /\ p.res.Key # <<>>
               /\ \E i \in (t.pos + 1)..(p.t.pos - 1) : c[i] = LF
            \/ QuotedFeed(c, p.t)

\* C29: line-ending independence: for every document that parses
\* successfully and has no quoted value containing a line feed, replacing
\* every LF by CR LF yields the same mapping, with no error.
C29_LineEndings ==
  (pc = "done" /\ ~QuotedFeed(content, NewTokenizer)) =>
    /\ Parse(content) = ret
    /\ Parse(ToCRLF(content)) = ret

\* a document of three lines with unquoted and quoted values has been parsed
C29_Witness ==
  /\ pc = "done"
  /\ ~QuotedFeed(content, NewTokenizer)
  /\ Cardinality({ i \in 1..Len(content) : content[i] = LF }) = 2
  /\ DOMAIN ret.env = {<<"A">>, <<"B">>}
  /\ ret.env[<<"A">>] = <<"x", " ", "y">>
  /\ ret.env[<<"B">>] = <<"y", " ", "z">>


-----------------------------------------------------------------------------
(* SpecPasses: Parse over documents whose values hold braced and bare      *)
(* references, resolved and unresolved, and dollars that start neither     *)

MaxPassLines == 2

PassLines ==
  { <<"A", "=", "x">>,
    <<"A", "=", SQ, "$", "A", SQ>>,
    <<"A", "=", SQ, "$", "{", "A", "}", "z", SQ>>,
    <<"A", "=">>,
    <<"A", "B", "=", "y">>,
    <<"A", "_", "1", "=", "z">>,
    <<"B", "=", SQ, "$", SQ>>,
    <<"A", "=", SQ, "{", "A", "}", SQ>>,
    <<"C", "=", "$", "{", "A", "}", "$", "A">>,
    <<"C", "=", "$", "{", "B", "}", SP, "$", "A", "B", SP, "$">>,
    <<"C", "=", "$", "1", SP, "$", "{", "A", SP, "$", "A", "_", "1">>,
    <<"C", "=", DQ, "$", "$", "{", "A", "}", DQ>>,
    <<"C", "=", "$", "{", "}", "$", "{", "1", "}", "$", SP, "A">>,
    <<"C", "=", "$", "A", "$", "{", "A", "}", "$", "{", "C", "}", "$", "C", "$", "$">>,
    <<"C", "=", SQ, "$", "{", "A", "}", SQ>>,
    <<"C", "=", "$", "A", "-", "$", "{", "B", "}">>,
    <<"C", "=", "a", "$", "A", "{", "b", "}">>,
    <<"C", "=", "x">> }

InitPasses ==
  /\ \E d \in DocsOf(PassLines, MaxPassLines) : NewParser(d)
  /\ input = EmptyEnv
  /\ file = <<>>
  /\ NoProcess

SpecPasses == InitPasses /\ [][Next]_vars

\* the occurrences of ${NAME} in s: a dollar, an opening brace, an
\* identifier and a closing brace
BracedRefs(s) ==
  { [start |-> i, end |-> e, name |-> Slice(s, i + 2, e - 1)] :
      <<i, e>> \in { p \in (0..Len(s)) \X (0..Len(s)) :
                       /\ p[1] + 3 < p[2]
                       /\ s[p[1] + 1] = DOLLAR
                       /\ s[p[1] + 2] = LBRACE
                       /\ s[p[2]] = RBRACE
                       /\ IsIdentifier(Slice(s, p[1] + 2, p[2] - 1)) } }

\* the occurrences of $NAME in s: a dollar, a letter or underscore, and the
\* maximal run of letters, digits and underscores that follows
BareRefs(s) ==
  { [start |-> i, end |-> e, name |-> Slice(s, i + 1, e)] :
      <<i, e>> \in { p \in (0..Len(s)) \X (0..Len(s)) :
                       /\ p[1] + 1 < p[2]
                       /\ s[p[1] + 1] = DOLLAR
                       /\ IsIdentifier(Slice(s, p[1] + 1, p[2]))
                       /\ (p[2] < Len(s) => ~IsIdentifier(Slice(s, p[1] + 1, p[2] + 1))) } }

RECURSIVE Substitute(_, _, _)
\* s with each of the occurrences refs replaced by the value of its name in
\* m, or kept when m has no such name; the occurrences do not overlap
Substitute(s, refs, m) ==
  IF refs = {} THEN s
  ELSE LET r == CHOOSE x \in refs : \A y \in refs : y.start <= x.start
       IN  Substitute(Slice(s, 0, r.start), refs \ {r}, m)
             \o (IF r.name \in DOMAIN m THEN m[r.name] ELSE Slice(s, r.start, r.end))
             \o Slice(s, r.end, Len(s))

\* the bare pass over s
BarePass(s, m) == Substitute(s, BareRefs(s), m)

\* the bytes of s from offset i to offset e are in f between what the bare
\* pass makes of the text before them and of the text after them
KeptByBarePass(s, f, i, e, m) ==
  f = BarePass(Slice(s, 0, i), m) \o Slice(s, i, e) \o BarePass(Slice(s, e, Len(s)), m)

\* C30: the two expansion passes run in sequence on the whole value: pass 1
\* replaces every ${NAME} whose NAME is in the mapping, pass 2 then replaces
\* every $NAME (maximal run of letters, digits, underscores after the
\* dollar) whose NAME is in the mapping in the output of pass 1; a ${NAME}
\* left by pass 1 is never altered by pass 2, and a dollar that pass 2 finds
\* not followed by a letter or underscore is left unchanged.
C30_TwoPasses ==
  [][ (EntryStep /\ result'.AllowExpansion) =>
        LET v == result'.Value
            p1 == Substitute(v, BracedRefs(v), env)
            f == env'[result'.Key]
        IN  /\ f = BarePass(p1, env)
            /\ \A r \in BracedRefs(p1) : KeptByBarePass(p1, f, r.start, r.end, env)
            /\ \A i \in 0..(Len(p1) - 1) :
                 (/\ p1[i + 1] = DOLLAR
                  /\ (i + 1 < Len(p1) => ~isValidKeyStart(p1[i + 2])))
                   => KeptByBarePass(p1, f, i, i + 1, env)
    ]_vars

\* A is "${A}z" and C=${A}$A was stored: each pass put the value of A in,
\* and the bare pass left the braced reference that the braced pass put in
C30_Witness ==
  /\ pos = Len(content)
  /\ DOMAIN env = {<<"A">>, <<"C">>}
  /\ result.Value = <<"$", "{", "A", "}", "$", "A">>
  /\ result.AllowExpansion
  /\ env[<<"A">>] = <<"$", "{", "A", "}", "z">>
  /\ env[<<"C">>] = env[<<"A">>] \o env[<<"A">>]

====
